---------------------------- MODULE Spec2Model ----------------------------
(***************************************************************************)
(* A model of clyde-go: the Markov chain (markov.Chain: Add, Build,        *)
(* NextWord, Generate, Save, LoadChain) and the message dispatch of the    *)
(* bot (Clyde.handleMessage over the list of behaviors).                   *)
(*                                                                         *)
(* A Go string is modelled as the sequence of its characters, each a       *)
(* one-character TLA+ string, so that strings.Join, strings.Fields and     *)
(* strings.ToLower are computed character by character.                    *)
(***************************************************************************)
EXTENDS Integers, Sequences, FiniteSets, TLC

VARIABLES
    c,          \* the markov.Chain under test: [chain, prefixLen]
    last,       \* the call in progress on c and what it returned
    observed,   \* history: the (prefix, suffix) pairs Add was called with
    file,       \* the chain file on disk (JSON document, or NoFile)
    saved,      \* history: the map that was written by the last Save
    clyde,      \* the Clyde: [chain, zsigChain, subs, mood, lastInteraction]
    home,       \* the files of the home directory of the Clyde, by name
    now,        \* the clock: messages handled so far, or hours under the ticker
    hm,         \* the message being handled, with the trace of its handling
    proc        \* the goroutines of Run and Shutdown, and what they share

chainVars == <<c, last, observed, file, saved>>
botVars == <<clyde, home, now, hm, proc>>
vars == <<c, last, observed, file, saved, clyde, home, now, hm, proc>>

----------------------------------------------------------------------------
(* Bounds of the model *)

\* total number of tokens a chain is trained on
MaxTotal == 4
\* the word limit n given to Generate
MaxGen == 2
\* the number of messages the Clyde handles
MaxMessages == 1

----------------------------------------------------------------------------
(* Program constants *)

prefixLen == 2
zsigPrefixLen == 1

----------------------------------------------------------------------------
(* Strings *)

EmptyString == << >>
Space == " "

\* The characters of a string literal.
Chars(str) == [i \in 1..Len(str) |-> SubSeq(str, i, i)]

\* The words that occur in the modelled texts.
Words == { Chars("a"), Chars("b"), Chars("A") }

Upper == Chars("ABCDEFGHIJKLMNOPQRSTUVWXYZ")
Lower == Chars("abcdefghijklmnopqrstuvwxyz")

\* the map from every letter of `from` to the letter at its place in `to`
LetterMap(from, to) ==
    [ch \in { from[i] : i \in DOMAIN from } |->
       to[CHOOSE i \in DOMAIN from : from[i] = ch]]

LowerOf == LetterMap(Upper, Lower)
UpperOf == LetterMap(Lower, Upper)

ToLowerChar(ch) == IF ch \in DOMAIN LowerOf THEN LowerOf[ch] ELSE ch
ToUpperChar(ch) == IF ch \in DOMAIN UpperOf THEN UpperOf[ch] ELSE ch

ToLower(s) == [i \in DOMAIN s |-> ToLowerChar(s[i])]
ToUpper(s) == [i \in DOMAIN s |-> ToUpperChar(s[i])]

\* strings.Contains
Contains(s, substr) ==
    \E i \in 0..(Len(s) - Len(substr)) :
       SubSeq(s, i + 1, i + Len(substr)) = substr

\* strings.Split(s, sep)[0] for a one-character separator
BeforeFirst(s, sep) ==
    IF \E i \in DOMAIN s : s[i] = sep
    THEN SubSeq(s, 1, (CHOOSE i \in DOMAIN s :
                          s[i] = sep /\ \A j \in 1..(i - 1) : s[j] # sep) - 1)
    ELSE s

RECURSIVE Join(_, _)
Join(elems, sep) ==
    IF Len(elems) = 0 THEN EmptyString
    ELSE IF Len(elems) = 1 THEN elems[1]
    ELSE elems[1] \o sep \o Join(Tail(elems), sep)

\* strings.Fields / fmt.Fscan: the maximal runs of non-space characters.
RECURSIVE FieldsFrom(_, _, _)
FieldsFrom(s, i, word) ==
    IF i > Len(s)
    THEN IF word = EmptyString THEN << >> ELSE <<word>>
    ELSE IF s[i] = Space
         THEN IF word = EmptyString
              THEN FieldsFrom(s, i + 1, EmptyString)
              ELSE <<word>> \o FieldsFrom(s, i + 1, EmptyString)
         ELSE FieldsFrom(s, i + 1, Append(word, s[i]))

Fields(s) == FieldsFrom(s, 1, EmptyString)

RECURSIVE SeqsUpTo(_, _)
SeqsUpTo(S, n) ==
    IF n = 0 THEN { << >> }
    ELSE LET shorter == SeqsUpTo(S, n - 1)
         IN  shorter \cup { Append(q, x) : q \in shorter, x \in S }

\* A text, given its words: single spaces, or padded with runs of spaces.
TextsOf(ts) ==
    { Join(ts, <<Space>>),
      <<Space>> \o Join(ts, <<Space, Space>>) \o <<Space>> }

Texts(n) == UNION { TextsOf(ts) : ts \in SeqsUpTo(Words, n) }

----------------------------------------------------------------------------
(* markov.Prefix *)

MakePrefix(n) == [i \in 1..n |-> EmptyString]

Shift(p, word) == Append(Tail(p), ToLower(word))

RECURSIVE ShiftAll(_, _)
ShiftAll(p, ws) ==
    IF ws = << >> THEN p ELSE ShiftAll(Shift(p, Head(ws)), Tail(ws))

----------------------------------------------------------------------------
(* markov.Chain *)

NewChain(n) == [chain |-> << >>, prefixLen |-> n]

HasKey(m, key) == key \in DOMAIN m

\* Mutant of Incr: c.chain[key] is made anew on every call, not only when
\* it is nil.
IncrAlwaysMake(m, key, s) ==
    IF HasKey(m, key)
    THEN [m EXCEPT ![key] = (s :> 1)]
    ELSE (key :> (s :> 1)) @@ m

\* c.chain[key][s]++, creating c.chain[key] when it is nil
Incr(m, key, s) ==
    IF HasKey(m, key)
    THEN IF s \in DOMAIN m[key]
         THEN [m EXCEPT ![key][s] = @ + 1]
         ELSE [m EXCEPT ![key] = (s :> 1) @@ @]
    ELSE (key :> (s :> 1)) @@ m

\* Mutant of AddFrom: the tails that begin with an empty word are not
\* skipped.
RECURSIVE AddFromNoSkip(_, _, _, _, _)
AddFromNoSkip(m, n, p, s, i) ==
    IF i > n THEN m
    ELSE AddFromNoSkip(Incr(m, Join(SubSeq(p, i + 1, n), <<Space>>), s),
                       n, p, s, i + 1)

\* The loop of Add from Go index i (TLA+ index i + 1).
RECURSIVE AddFrom(_, _, _, _, _)
AddFrom(m, n, p, s, i) ==
    IF i > n THEN m
    ELSE IF i < n /\ p[i + 1] = EmptyString
         THEN AddFrom(m, n, p, s, i + 1)
         ELSE AddFrom(Incr(m, Join(SubSeq(p, i + 1, n), <<Space>>), s),
                      n, p, s, i + 1)

Add(ch, p, s) == [ch EXCEPT !.chain = AddFrom(ch.chain, ch.prefixLen, p, s, 0)]

\* The loop of Build over the tokens fmt.Fscan reads.
RECURSIVE BuildFrom(_, _, _)
BuildFrom(ch, p, tokens) ==
    IF tokens = << >> THEN ch
    ELSE BuildFrom(Add(ch, p, Head(tokens)), Shift(p, Head(tokens)),
                   Tail(tokens))

\* Mutant of Build: the token is added before the error of Fscan is
\* looked at, so a text without tokens adds one empty token.
BuildAddBeforeCheck(ch, text) ==
    IF Fields(text) = << >>
    THEN Add(ch, MakePrefix(ch.prefixLen), EmptyString)
    ELSE BuildFrom(ch, MakePrefix(ch.prefixLen), Fields(text))

Build(ch, text) == BuildFrom(ch, MakePrefix(ch.prefixLen), Fields(text))

\* The (prefix, suffix) pairs Build calls Add with.
RECURSIVE AddCalls(_, _)
AddCalls(p, tokens) ==
    IF tokens = << >> THEN {}
    ELSE {<<p, Head(tokens)>>}
         \cup AddCalls(Shift(p, Head(tokens)), Tail(tokens))

RECURSIVE SumOver(_, _)
SumOver(f, S) ==
    IF S = {} THEN 0
    ELSE LET x == CHOOSE y \in S : TRUE
         IN  f[x] + SumOver(f, S \ {x})

\* total := sum of the frequencies under a key
Total(freqs) == SumOver(freqs, DOMAIN freqs)

\* The orders in which a range over a Go map may visit its keys.
RECURSIVE Orders(_)
Orders(S) ==
    IF S = {} THEN { << >> }
    ELSE UNION { { <<x>> \o q : q \in Orders(S \ {x}) } : x \in S }

\* The selection loop of NextWord: n -= freq; if n <= 0 { return w }
RECURSIVE Scan(_, _, _)
Scan(freqs, order, n) ==
    IF order = << >> THEN [found |-> FALSE, w |-> EmptyString]
    ELSE LET m == n - freqs[Head(order)]
         IN  IF m <= 0 THEN [found |-> TRUE, w |-> Head(order)]
             ELSE Scan(freqs, Tail(order), m)

\* Mutant of NextWordFrom: a missing key ends the search instead of moving
\* on to the next shorter tail.
RECURSIVE NextWordFromNoFallback(_, _, _)
NextWordFromNoFallback(ch, p, i) ==
    LET none == [w |-> EmptyString, i |-> -1, key |-> EmptyString,
                 order |-> << >>, n |-> 0]
        key == Join(SubSeq(p, i + 1, ch.prefixLen), <<Space>>)
    IN  IF i > ch.prefixLen \/ ~HasKey(ch.chain, key) THEN { none }
        ELSE LET freqs == ch.chain[key]
             IN  UNION { { LET r == Scan(freqs, order, n)
                           IN  [w |-> r.w, i |-> i, key |-> key,
                                order |-> order, n |-> n]
                           : n \in 0..(Total(freqs) - 1) }
                         : order \in Orders(DOMAIN freqs) }

\* The outcomes of NextWord from Go index i: the word returned and the
\* tail index, key, scan order and draw that led to it (i = -1: none).
RECURSIVE NextWordFrom(_, _, _)
NextWordFrom(ch, p, i) ==
    IF i > ch.prefixLen
    THEN { [w |-> EmptyString, i |-> -1, key |-> EmptyString,
            order |-> << >>, n |-> 0] }
    ELSE LET key == Join(SubSeq(p, i + 1, ch.prefixLen), <<Space>>)
         IN  IF ~HasKey(ch.chain, key) THEN NextWordFrom(ch, p, i + 1)
             ELSE LET freqs == ch.chain[key]
                      total == Total(freqs)
                  IN  IF total = 0 THEN NextWordFrom(ch, p, i + 1)
                      ELSE UNION { UNION {
                             LET r == Scan(freqs, order, n)
                             IN  IF r.found
                                 THEN { [w |-> r.w, i |-> i, key |-> key,
                                         order |-> order, n |-> n] }
                                 ELSE NextWordFrom(ch, p, i + 1)
                             : n \in 0..(total - 1) }
                             : order \in Orders(DOMAIN freqs) }

\* Mutant of NextWordOutcomes: the search starts at the second tail.
NextWordOutcomesSkipFull(ch, p) == NextWordFrom(ch, p, 1)

NextWordOutcomes(ch, p) == NextWordFrom(ch, p, 0)

\* What the suffixes visited before w may have summed to, over every order
\* in which the range may visit the suffixes: the sum of any non-empty set
\* of the others.
BeforeSums(freqs, w) ==
    { SumOver(freqs, before) :
        before \in (SUBSET (DOMAIN freqs \ {w})) \ {{}} }

\* The words the selection loop may return for the draw n: w is returned
\* when it is visited first, or the suffixes visited before it left n
\* above zero, and its frequency brings n to zero or below.
Selected(freqs, sums, n) ==
    { w \in DOMAIN freqs :
        \/ n - freqs[w] <= 0
        \/ \E s \in sums[w] : n - s > 0 /\ n - s - freqs[w] <= 0 }

\* The words NextWord may return from Go index i on.
RECURSIVE NextWordsFrom(_, _, _)
NextWordsFrom(ch, p, i) ==
    IF i > ch.prefixLen THEN { EmptyString }
    ELSE LET key == Join(SubSeq(p, i + 1, ch.prefixLen), <<Space>>)
         IN  IF ~HasKey(ch.chain, key) THEN NextWordsFrom(ch, p, i + 1)
             ELSE LET freqs == ch.chain[key]
                      total == Total(freqs)
                      sums == [w \in DOMAIN freqs |-> BeforeSums(freqs, w)]
                  IN  IF total = 0 THEN NextWordsFrom(ch, p, i + 1)
                      ELSE UNION { Selected(freqs, sums, n)
                                   \cup (IF n - total > 0
                                         THEN NextWordsFrom(ch, p, i + 1)
                                         ELSE {})
                                   : n \in 0..(total - 1) }

NextWord(ch, p) == NextWordsFrom(ch, p, 0)

\* Mutant of GenerateFrom: the loop runs while i <= n.
RECURSIVE GenerateFromOneMore(_, _, _, _, _)
GenerateFromOneMore(ch, words, p, i, n) ==
    IF i > n THEN { words }
    ELSE UNION { IF Len(next) = 0 THEN { words }
                 ELSE GenerateFromOneMore(ch, Append(words, next),
                                          Shift(p, next), i + 1, n)
                 : next \in NextWord(ch, p) }

\* The generation loop of Generate: the word lists it may end with.
RECURSIVE GenerateFrom(_, _, _, _, _)
GenerateFrom(ch, words, p, i, n) ==
    IF i >= n THEN { words }
    ELSE UNION { IF Len(next) = 0 THEN { words }
                 ELSE GenerateFrom(ch, Append(words, next), Shift(p, next),
                                   i + 1, n)
                 : next \in NextWord(ch, p) }

Max(a, b) == IF a > b THEN a ELSE b

\* The prefix Generate starts from: the last prefixLen words of the seed.
SeedPrefix(ch, words) ==
    LET lastWordsStart == Max(Len(words) - ch.prefixLen, 0)
    IN  ShiftAll(MakePrefix(ch.prefixLen),
                 SubSeq(words, lastWordsStart + 1, Len(words)))

Generate(ch, start, n) ==
    LET words == Fields(start)
    IN  { Join(ws, <<Space>>) :
            ws \in GenerateFrom(ch, words, SeedPrefix(ch, words), 0, n) }

----------------------------------------------------------------------------
(* Chain.Save and LoadChain: encoding/json on map[string]map[string]int.   *)
(* A JSON object is the sequence of its members in the order written (Go   *)
(* writes the keys of a map sorted); a string is written escaped, an int   *)
(* as its decimal digits.                                                  *)

\* the printable characters of ASCII in the order of their code points,
\* in two runs (the grave accent, 96, is left out), each with the code
\* point of its first character
Printable ==
    << << 32, Chars(" !\"#$%&'()*+,-./0123456789:;<=>?@")
              \o Chars("ABCDEFGHIJKLMNOPQRSTUVWXYZ[\\]^_") >>,
       << 97, Chars("abcdefghijklmnopqrstuvwxyz{|}~") >> >>

CodePoints ==
    LET CodesOf(run) == [i \in 1..Len(run[2]) |-> run[1] + i - 1]
        Table(run) == { <<run[2][i], CodesOf(run)[i]>> :
                          i \in 1..Len(run[2]) }
        pairs == Table(Printable[1]) \cup Table(Printable[2])
    IN  [ch \in { p[1] : p \in pairs } |->
           (CHOOSE p \in pairs : p[1] = ch)[2]]

\* the code point of a character
Code(ch) == CodePoints[ch]

\* s < t in the order of Go strings
RECURSIVE StringLess(_, _)
StringLess(s, t) ==
    IF t = << >> THEN FALSE
    ELSE IF s = << >> THEN TRUE
    ELSE IF Code(Head(s)) # Code(Head(t)) THEN Code(Head(s)) < Code(Head(t))
    ELSE StringLess(Tail(s), Tail(t))

RECURSIVE SortedKeys(_)
SortedKeys(S) ==
    IF S = {} THEN << >>
    ELSE LET least == CHOOSE x \in S :
                        \A y \in S \ {x} : StringLess(x, y)
         IN  <<least>> \o SortedKeys(S \ {least})

\* the text of a JSON string: a quote or a backslash gets a backslash
RECURSIVE JSONEscape(_)
JSONEscape(s) ==
    IF s = << >> THEN << >>
    ELSE (IF Head(s) \in {"\"", "\\"} THEN <<"\\", Head(s)>> ELSE <<Head(s)>>)
         \o JSONEscape(Tail(s))

\* Mutant of JSONUnescape: the text of the string is taken as it stands.
JSONUnescapeVerbatim(s) == s

RECURSIVE JSONUnescape(_)
JSONUnescape(s) ==
    IF s = << >> THEN << >>
    ELSE IF Head(s) = "\\" /\ Len(s) >= 2
         THEN <<s[2]>> \o JSONUnescape(Tail(Tail(s)))
         ELSE <<Head(s)>> \o JSONUnescape(Tail(s))

\* the decimal digits of a non-negative int, and back
RECURSIVE Digits(_)
Digits(n) == IF n < 10 THEN <<n>> ELSE Append(Digits(n \div 10), n % 10)

RECURSIVE ParseInt(_)
ParseInt(ds) ==
    IF Len(ds) = 1 THEN ds[1]
    ELSE 10 * ParseInt(SubSeq(ds, 1, Len(ds) - 1)) + ds[Len(ds)]

\* enc.Encode(c.chain)
EncodeFreqs(freqs) ==
    LET ks == SortedKeys(DOMAIN freqs)
    IN  [i \in 1..Len(ks) |-> <<JSONEscape(ks[i]), Digits(freqs[ks[i]])>>]

Encode(m) ==
    LET ks == SortedKeys(DOMAIN m)
    IN  [i \in 1..Len(ks) |-> <<JSONEscape(ks[i]), EncodeFreqs(m[ks[i]])>>]

\* dec.Decode(&c.chain): the members are stored one by one, so of two
\* members with the same key the later one stays
RECURSIVE DecodeFreqs(_)
DecodeFreqs(members) ==
    IF members = << >> THEN << >>
    ELSE LET lastOne == members[Len(members)]
         IN  (JSONUnescape(lastOne[1]) :> ParseInt(lastOne[2]))
             @@ DecodeFreqs(SubSeq(members, 1, Len(members) - 1))

RECURSIVE Decode(_)
Decode(members) ==
    IF members = << >> THEN << >>
    ELSE LET lastOne == members[Len(members)]
         IN  (JSONUnescape(lastOne[1]) :> DecodeFreqs(lastOne[2]))
             @@ Decode(SubSeq(members, 1, Len(members) - 1))

\* no file of that name
NoFile == [exists |-> FALSE, doc |-> << >>]

\* Save: nothing is written when os.Create fails (created = FALSE)
Save(ch, f, created) ==
    IF created THEN [exists |-> TRUE, doc |-> Encode(ch.chain)] ELSE f


\* LoadChain: a new chain; the file is decoded into it when it opens
LoadChain(f, n) ==
    IF f.exists THEN [NewChain(n) EXCEPT !.chain = Decode(f.doc)]
    ELSE NewChain(n)

----------------------------------------------------------------------------
(* stringutil *)

MaxLine == 70

\* The loop of BreakLines: `line` holds the words of the line being filled,
\* `length` its length in characters (-1 for an empty line).
RECURSIVE BreakLinesFrom(_, _, _, _, _)
BreakLinesFrom(words, lines, line, length, maxLine) ==
    IF words = << >>
    THEN Join(Append(lines, Join(line, <<Space>>)), <<"\n">>)
    ELSE LET w == Head(words)
             wordLength == Len(w) + 1
         IN  IF length + wordLength > maxLine /\ length # 0
             THEN BreakLinesFrom(Tail(words),
                                 Append(lines, Join(line, <<Space>>)),
                                 <<w>>, -1 + wordLength, maxLine)
             ELSE BreakLinesFrom(Tail(words), lines, Append(line, w),
                                 length + wordLength, maxLine)

BreakLines(s, maxLine) == BreakLinesFrom(Fields(s), << >>, << >>, -1, maxLine)

\* Article: "an" before a lowercase vowel
Article(w) ==
    IF w # << >> /\ Head(w) \in {"a", "e", "i", "o", "u"}
    THEN Chars("an") ELSE Chars("a")

Capitalize(w) ==
    IF Len(w) < 2 THEN ToUpper(w)
    ELSE <<ToUpperChar(Head(w))>> \o Tail(w)

\* Escape: a slash becomes \x2f; %q writes a quote and a backslash of a
\* rune literal with a backslash before it (the modelled characters are all
\* printable)
RECURSIVE Escape(_)
Escape(s) ==
    IF s = << >> THEN << >>
    ELSE (CASE Head(s) = "/" -> Chars("\\x2f")
            [] Head(s) \in {"'", "\\"} -> <<"\\", Head(s)>>
            [] OTHER -> <<Head(s)>>)
         \o Escape(Tail(s))

----------------------------------------------------------------------------
(* regexp: the patterns of the behaviors as syntax trees, matched as Go     *)
(* matches them: leftmost, and among the matches at one place the one a    *)
(* backtracking search finds first.  (?i) is put before every pattern:     *)
(* the letters of a tree are kept in lower case and matched against the    *)
(* text in lower case; the groups are cut from the text as it is.          *)

\* a character class, [cs] or [^cs]; the dot is any character but newline
Class(neg, cs) == [neg |-> neg, cs |-> { ToLowerChar(ch) : ch \in cs }]
Dot == Class(TRUE, {"\n"})
Not(str) == Class(TRUE, { Chars(str)[i] : i \in 1..Len(str) })

\* syntax trees: literal text; lo to hi characters of a class (hi = -1: no
\* limit), greedy or lazy; end of text; sequence; alternation; group k
Lit(str) == [t |-> "lit", s |-> ToLower(Chars(str))]
Rep(cls, lo, hi, greedy) ==
    [t |-> "rep", cls |-> cls, lo |-> lo, hi |-> hi, greedy |-> greedy]
EndText == [t |-> "end"]
Cat(rs) == [t |-> "cat", rs |-> rs]
Alt(rs) == [t |-> "alt", rs |-> rs]
Cap(k, name, r) == [t |-> "cap", k |-> k, name |-> name, r |-> r]

One(cls) == Rep(cls, 1, 1, TRUE)
Plus(cls) == Rep(cls, 1, -1, TRUE)
Star(cls) == Rep(cls, 0, -1, TRUE)
LazyStar(cls) == Rep(cls, 0, -1, FALSE)
Quest(cls) == Rep(cls, 0, 1, TRUE)
\* x? for a group x
Opt(r) == Alt(<<r, Cat(<< >>)>>)

InClass(cls, ch) == (ch \in cls.cs) # cls.neg

\* how many characters of s (in lower case) after offset i are in the
\* class, at most hi
RECURSIVE Run(_, _, _, _)
Run(cls, s, i, hi) ==
    IF i < Len(s) /\ hi # 0 /\ InClass(cls, s[i + 1])
    THEN 1 + Run(cls, s, i + 1, hi - 1)
    ELSE 0

\* The matches of a tree at offset i of s (in lower case), in the order of
\* the search: each the offset where it ends and the groups it has set.
RECURSIVE Match(_, _, _, _)
RECURSIVE MatchCat(_, _, _, _, _)
RECURSIVE MatchRest(_, _, _, _, _)
RECURSIVE MatchAlt(_, _, _, _, _)

Match(re, s, i, caps) ==
    CASE re.t = "lit" ->
           LET j == i + Len(re.s)
           IN  IF j <= Len(s) /\ SubSeq(s, i + 1, j) = re.s
               THEN << [i |-> j, caps |-> caps] >>
               ELSE << >>
      [] re.t = "rep" ->
           LET run == Run(re.cls, s, i, re.hi)
               cnt == run - re.lo + 1
           IN  IF cnt <= 0 THEN << >>
               ELSE [k \in 1..cnt |->
                       [i |-> IF re.greedy THEN i + run - (k - 1)
                                           ELSE i + re.lo + (k - 1),
                        caps |-> caps]]
      [] re.t = "end" ->
           IF i = Len(s) THEN << [i |-> i, caps |-> caps] >> ELSE << >>
      [] re.t = "cat" -> MatchCat(re.rs, 1, s, i, caps)
      [] re.t = "alt" -> MatchAlt(re.rs, 1, s, i, caps)
      [] re.t = "cap" ->
           LET inner == Match(re.r, s, i, caps)
           IN  [k \in 1..Len(inner) |->
                 [i |-> inner[k].i,
                  caps |-> (re.k :> <<i, inner[k].i>>) @@ inner[k].caps]]

MatchCat(rs, n, s, i, caps) ==
    IF n > Len(rs) THEN << [i |-> i, caps |-> caps] >>
    ELSE MatchRest(Match(rs[n], s, i, caps), 1, rs, n + 1, s)

MatchRest(found, k, rs, n, s) ==
    IF k > Len(found) THEN << >>
    ELSE MatchCat(rs, n, s, found[k].i, found[k].caps)
         \o MatchRest(found, k + 1, rs, n, s)

MatchAlt(rs, n, s, i, caps) ==
    IF n > Len(rs) THEN << >>
    ELSE Match(rs[n], s, i, caps) \o MatchAlt(rs, n + 1, s, i, caps)

\* FindStringSubmatchIndex: the first match at the leftmost offset
RECURSIVE FindFrom(_, _, _)
FindFrom(re, s, i) ==
    IF i > Len(s) THEN [found |-> FALSE, caps |-> << >>]
    ELSE LET ms == Match(re, s, i, << >>)
         IN  IF Len(ms) > 0
             THEN [found |-> TRUE, caps |-> (0 :> <<i, ms[1].i>>) @@ ms[1].caps]
             ELSE FindFrom(re, s, i + 1)

FindStringSubmatchIndex(re, s) == FindFrom(re, ToLower(s), 0)

\* SubexpNames: the name of every group of a tree
RECURSIVE SubexpNames(_)
RECURSIVE SubexpNamesOf(_, _)
SubexpNames(re) ==
    CASE re.t = "cap" -> (re.k :> re.name) @@ SubexpNames(re.r)
      [] re.t \in {"cat", "alt"} -> SubexpNamesOf(re.rs, 1)
      [] OTHER -> << >>

SubexpNamesOf(rs, n) ==
    IF n > Len(rs) THEN << >>
    ELSE SubexpNames(rs[n]) @@ SubexpNamesOf(rs, n + 1)

\* ExpandString of the template "$key": the text of the first group of that
\* name that took part in the match, or the empty string
ExpandString(re, key, s, match) ==
    LET names == SubexpNames(re)
        set == { k \in DOMAIN match.caps \ {0} : names[k] = key }
    IN  IF set = {} THEN EmptyString
        ELSE LET k == CHOOSE x \in set : \A y \in set : x <= y
             IN  SubSeq(s, match.caps[k][1] + 1, match.caps[k][2])

----------------------------------------------------------------------------
(* The patterns of the behaviors (groups are numbered by their opening     *)
(* parenthesis, as regexp numbers them)                                    *)

In(str) == Class(FALSE, { Chars(str)[i] : i \in 1..Len(str) })

\* clyde.? (?P<person>.+) says,? ("(?P<phrase>[^"]+)".?|'(?P<phrase>[^']+)'.?
\*   |(?P<phrase>[^"']+)|(?P<phrase>.+["'].+))$
addActLikePattern ==
    Cat(<< Lit("clyde"), Quest(Dot), Lit(" "),
           Cap(1, "person", Plus(Dot)),
           Lit(" says"), Quest(In(",")), Lit(" "),
           Cap(2, "", Alt(<<
               Cat(<< Lit("\""), Cap(3, "phrase", Plus(Not("\""))),
                      Lit("\""), Quest(Dot) >>),
               Cat(<< Lit("'"), Cap(4, "phrase", Plus(Not("'"))),
                      Lit("'"), Quest(Dot) >>),
               Cap(5, "phrase", Plus(Not("\"'"))),
               Cap(6, "phrase",
                   Cat(<< Plus(Dot), One(In("\"'")), Plus(Dot) >>)) >>)),
           EndText >>)

\* clyde.? ((please )?act like (?P<person>.*[^\.\?!])(?P<punc>.*?)$
\*   |what does (?P<person>.+) say)
actLikePattern ==
    Cat(<< Lit("clyde"), Quest(Dot), Lit(" "),
           Cap(1, "", Alt(<<
               Cat(<< Opt(Cap(2, "", Lit("please "))), Lit("act like "),
                      Cap(3, "person", Cat(<< Star(Dot), One(Not(".?!")) >>)),
                      Cap(4, "punc", LazyStar(Dot)), EndText >>),
               Cat(<< Lit("what does "), Cap(5, "person", Plus(Dot)),
                      Lit(" say") >>) >>)) >>)

\* (me|my class|(-c )?(?P<class>[^ !\?]+[^ !\?\.])), its groups numbered
\* from k
ClassPattern(k) ==
    Cap(k, "", Alt(<<
        Lit("me"), Lit("my class"),
        Cat(<< Opt(Cap(k + 1, "", Lit("-c "))),
               Cap(k + 2, "class",
                   Cat(<< Plus(Not(" !?")), One(Not(" !?.")) >>)) >>) >>))

\* clyde.*sub(scribe)? to (me|my class|(-c )?(?P<class>[^ !\?]+[^ !\?\.]))
addSubPattern ==
    Cat(<< Lit("clyde"), Star(Dot), Lit("sub"),
           Opt(Cap(1, "", Lit("scribe"))), Lit(" to "), ClassPattern(2) >>)

\* are you (on|sub(scri)?bed to) (me|my class|(-c )?(?P<class>...))
checkSubPattern ==
    Cat(<< Lit("are you "),
           Cap(1, "", Alt(<< Lit("on"),
                             Cat(<< Lit("sub"), Opt(Cap(2, "", Lit("scri"))),
                                    Lit("bed to") >>) >>)),
           Lit(" "), ClassPattern(3) >>)

\* clyde.? (?P<job>.+) is an? (job|profession|occupation)
learnJobPattern ==
    Cat(<< Lit("clyde"), Quest(Dot), Lit(" "), Cap(1, "job", Plus(Dot)),
           Lit(" is a"), Quest(In("n")), Lit(" "),
           Cap(2, "", Alt(<< Lit("job"), Lit("profession"),
                             Lit("occupation") >>)) >>)

\* tell me a story
storyPattern == Lit("tell me a story")

\* (who|which|what), group k
WhoPattern(k) == Cap(k, "", Alt(<< Lit("who"), Lit("which"), Lit("what") >>))

\* if (?P<fight1>.+) and (?P<fight2>.+) (fought|duell?ed|got in|were in|had)
\*   |(who|which|what) .* between (?P<fight1>.+) and (?P<fight2>.+[^,\?])(\?|$)
\*   |between (?P<fight1>.+) and (?P<fight2>.+[^,\?]),? (who|which|what)
fightPattern ==
    Alt(<<
      Cat(<< Lit("if "), Cap(1, "fight1", Plus(Dot)), Lit(" and "),
             Cap(2, "fight2", Plus(Dot)), Lit(" "),
             Cap(3, "", Alt(<< Lit("fought"),
                               Cat(<< Lit("duel"), Quest(In("l")),
                                      Lit("ed") >>),
                               Lit("got in"), Lit("were in"),
                               Lit("had") >>)) >>),
      Cat(<< WhoPattern(4), Lit(" "), Star(Dot), Lit(" between "),
             Cap(5, "fight1", Plus(Dot)), Lit(" and "),
             Cap(6, "fight2", Cat(<< Plus(Dot), One(Not(",?")) >>)),
             Cap(7, "", Alt(<< Lit("?"), EndText >>)) >>),
      Cat(<< Lit("between "), Cap(8, "fight1", Plus(Dot)), Lit(" and "),
             Cap(9, "fight2", Cat(<< Plus(Dot), One(Not(",?")) >>)),
             Quest(In(",")), Lit(" "), WhoPattern(10) >>) >>)

\* clyde, (?P<topic>[^ ]+)
chatPattern == Cat(<< Lit("clyde, "), Cap(1, "topic", Plus(Not(" "))) >>)

----------------------------------------------------------------------------
(* Clyde: the state the behaviors read and write.  A Clyde is the record   *)
(* [chain, zsigChain, subs, mood, lastInteraction]; subs maps a class to   *)
(* its policy (a class that is not in the map has policy 0).  The home     *)
(* directory maps a file name to the lines of the file.                    *)

LISTEN == 1
REPLYHOME == 2
FULL == 3

okMood == 5

homeClass == Chars("ztoys-dev")
homeInstance == Chars("clyde")
sender == Chars("clyde")

\* c.subs[class]
Policy(subs, class) == IF class \in DOMAIN subs THEN subs[class] ELSE 0

\* Mutant of subscribe: the policy is set whatever the class had.
subscribeOverwrite(cl, class, policy) ==
    [cl EXCEPT !.subs = (class :> policy) @@ cl.subs]

subscribe(cl, class, policy) ==
    IF Policy(cl.subs, class) # 0 THEN cl
    ELSE [cl EXCEPT !.subs = (class :> policy) @@ cl.subs]

shortSender(r) == BeforeFirst(r.sender, "@")

\* allLines: the non-empty lines of a file, or an error when it does not open
allLines(dir, filename) ==
    IF filename \notin DOMAIN dir THEN [err |-> TRUE, lines |-> << >>]
    ELSE LET NonEmpty(line) == line # EmptyString
         IN  [err |-> FALSE, lines |-> SelectSeq(dir[filename], NonEmpty)]

\* randomLine: every line rand.Intn may pick; rand.Intn(0) panics
randomLine(dir, filename) ==
    LET all == allLines(dir, filename)
    IN  IF all.err
        THEN { [line |-> EmptyString, err |-> TRUE, panic |-> FALSE] }
        ELSE IF Len(all.lines) = 0
        THEN { [line |-> EmptyString, err |-> FALSE, panic |-> TRUE] }
        ELSE { [line |-> all.lines[i], err |-> FALSE, panic |-> FALSE] :
                 i \in 1..Len(all.lines) }

\* addLine: the line is appended to the file, which is created when it is
\* not there; nothing is written when the file does not open
addLine(dir, filename, line) ==
    { dir,
      IF filename \in DOMAIN dir
      THEN [dir EXCEPT ![filename] = Append(@, line)]
      ELSE (filename :> <<line>>) @@ dir }

\* path.Join("al", stringutil.Escape(strings.ToLower(person)))
alFile(person) == Chars("al/") \o Escape(ToLower(person))
jobsFile == Chars("jobs")

----------------------------------------------------------------------------
(* The response functions of the behaviors: each gives the set of its      *)
(* possible outcomes (the response, the Clyde and the home directory it    *)
(* leaves, or a panic), one for every random choice and every outcome of   *)
(* opening a file.                                                         *)

Responds(response, cl, dir) ==
    [response |-> response, cl |-> cl, dir |-> dir, panic |-> FALSE]

Panics(cl, dir) ==
    [response |-> EmptyString, cl |-> cl, dir |-> dir, panic |-> TRUE]

addActLikeResp(cl, dir, r, kvs) ==
    { Responds(Chars("Ok!"), cl, d) :
        d \in addLine(dir, alFile(kvs["person"]), kvs["phrase"]) }

actLikeResp(cl, dir, r, kvs) ==
    LET unknown == Chars("I don't know how to act like ") \o kvs["person"]
                   \o Chars(".")
        Second(phrase) ==
            IF phrase.panic THEN Panics(cl, dir)
            ELSE IF phrase.err THEN Responds(unknown, cl, dir)
            ELSE Responds(phrase.line, cl, dir)
        First(phrase) ==
            IF phrase.panic THEN { Panics(cl, dir) }
            ELSE IF phrase.err
            THEN { Second(p2) :
                     p2 \in randomLine(dir, alFile(kvs["person"]
                                                   \o kvs["punc"])) }
            ELSE { Responds(phrase.line, cl, dir) }
    IN  UNION { First(p1) : p1 \in randomLine(dir, alFile(kvs["person"])) }

\* Mutant of addSubResp: the authentication of the message is not looked
\* at.
addSubRespNoAuth(cl, dir, r, kvs) ==
    LET class == IF kvs["class"] = EmptyString THEN shortSender(r)
                 ELSE kvs["class"]
    IN  IF r.class # homeClass \/ r.instance # homeInstance
        THEN { Responds(Chars("I'm subbed to a lot of classes right now; maybe another time..."),
                        cl, dir) }
        ELSE IF Policy(cl.subs, class) # 0
        THEN { Responds(Chars("I'm already subbed to -c ") \o class
                        \o Chars("!"), cl, dir) }
        ELSE { Responds(Chars("-c ") \o class
                        \o Chars(" sounds awesome! Thanks for the invitation :)"),
                        subscribe(cl, class, REPLYHOME), dir) }

addSubResp(cl, dir, r, kvs) ==
    LET class == IF kvs["class"] = EmptyString THEN shortSender(r)
                 ELSE kvs["class"]
    IN  IF r.class # homeClass \/ r.instance # homeInstance
        THEN { Responds(Chars("I'm subbed to a lot of classes right now; maybe another time..."),
                        cl, dir) }
        ELSE IF Policy(cl.subs, class) # 0
        THEN { Responds(Chars("I'm already subbed to -c ") \o class
                        \o Chars("!"), cl, dir) }
        ELSE IF ~r.auth
        THEN { Responds(Chars("You look sketchy, I don't trust you..."),
                        cl, dir) }
        ELSE { Responds(Chars("-c ") \o class
                        \o Chars(" sounds awesome! Thanks for the invitation :)"),
                        subscribe(cl, class, REPLYHOME), dir) }

checkSubResp(cl, dir, r, kvs) ==
    LET class == IF kvs["class"] = EmptyString THEN shortSender(r)
                 ELSE kvs["class"]
    IN  IF Policy(cl.subs, class) = 0
        THEN { Responds(Chars("I'm not subbed to -c ") \o class \o Chars("."),
                        cl, dir) }
        ELSE { Responds(Chars("Yup, I'm subbed to -c ") \o class
                        \o Chars("! It's my favorite class :)"), cl, dir) }

learnJobResp(cl, dir, r, kvs) ==
    { Responds(Chars("That's what I wanna be when I grow up!"), cl, d) :
        d \in addLine(dir, jobsFile, kvs["job"]) }

storyResp(cl, dir, r, kvs) ==
    { IF job.panic THEN Panics(cl, dir)
      ELSE Responds(Chars("Once upon a time, there was ")
                    \o Article(job.line) \o Chars(" ") \o job.line
                    \o Chars(" named ") \o shortSender(r) \o Chars(" who"),
                    cl, dir) :
        job \in randomLine(dir, jobsFile) }

\* Mutant of fightResp: no case of the switch sets the winner.
fightRespNoName(cl, dir, r, kvs) ==
    { Responds(Chars("I think  would win, because"), cl, dir) }

fightResp(cl, dir, r, kvs) ==
    { Responds(Chars("I think ") \o kvs[winner]
               \o Chars(" would win, because"), cl, dir) :
        winner \in {"fight1", "fight2"} }

chatResp(cl, dir, r, kvs) == { Responds(Capitalize(kvs["topic"]), cl, dir) }

----------------------------------------------------------------------------
(* StandardBehavior and the list of behaviors.  A message is the record    *)
(* [sender, class, instance, auth, body], body the sequence of its fields  *)
(* (Body[0], the zsig, is body[1]; Body[1], the text, is body[2]).         *)

Behaviors == <<
    [name |-> "addActLike", pattern |-> addActLikePattern,
     keys |-> {"person", "phrase"}, chain |-> FALSE],
    [name |-> "actLike", pattern |-> actLikePattern,
     keys |-> {"person", "punc"}, chain |-> FALSE],
    [name |-> "addSub", pattern |-> addSubPattern,
     keys |-> {"class"}, chain |-> FALSE],
    [name |-> "checkSub", pattern |-> checkSubPattern,
     keys |-> {"class"}, chain |-> FALSE],
    [name |-> "learnJob", pattern |-> learnJobPattern,
     keys |-> {"job"}, chain |-> FALSE],
    [name |-> "story", pattern |-> storyPattern,
     keys |-> {}, chain |-> TRUE],
    [name |-> "fight", pattern |-> fightPattern,
     keys |-> {"fight1", "fight2"}, chain |-> TRUE],
    [name |-> "chat", pattern |-> chatPattern,
     keys |-> {"topic"}, chain |-> TRUE] >>

resp(name, cl, dir, r, kvs) ==
    CASE name = "addActLike" -> addActLikeResp(cl, dir, r, kvs)
      [] name = "actLike" -> actLikeResp(cl, dir, r, kvs)
      [] name = "addSub" -> addSubResp(cl, dir, r, kvs)
      [] name = "checkSub" -> checkSubResp(cl, dir, r, kvs)
      [] name = "learnJob" -> learnJobResp(cl, dir, r, kvs)
      [] name = "story" -> storyResp(cl, dir, r, kvs)
      [] name = "fight" -> fightResp(cl, dir, r, kvs)
      [] name = "chat" -> chatResp(cl, dir, r, kvs)

\* the zephyr that send hands to the session (its zsig, generated from the
\* zsig chain, is left out: generating changes no state)
send(class, instance, body) ==
    [class |-> class, instance |-> instance, body |-> body]

\* Mutant of Reply: the policy of the class is not looked at.
ReplyInPlace(cl, r, response) ==
    << send(r.class, r.instance, BreakLines(response, MaxLine)) >>

\* Mutant of Reply: under REPLYHOME the reply goes to the home class even
\* when the text names Clyde.
ReplyHomeAlways(cl, r, response) ==
    LET text == BreakLines(response, MaxLine)
    IN  IF r.class # homeClass \/ r.instance # homeInstance
        THEN CASE Policy(cl.subs, r.class) \in {0, LISTEN} -> << >>
               [] Policy(cl.subs, r.class) = REPLYHOME ->
                    << send(homeClass, homeInstance, text) >>
               [] OTHER -> << send(r.class, r.instance, text) >>
        ELSE << send(r.class, r.instance, text) >>

\* The zephyrs a behavior sends for a response: none, or one, on the class
\* and instance the policy of the class of the message gives.
Reply(cl, r, response) ==
    LET text == BreakLines(response, MaxLine)
        inPlace == << send(r.class, r.instance, text) >>
    IN  IF r.class # homeClass \/ r.instance # homeInstance
        THEN CASE Policy(cl.subs, r.class) \in {0, LISTEN} -> << >>
               [] Policy(cl.subs, r.class) = REPLYHOME ->
                    IF ~Contains(ToLower(r.body[2]), Chars("clyde"))
                    THEN << send(homeClass, homeInstance, text) >>
                    ELSE inPlace
               [] OTHER -> inPlace
        ELSE inPlace

\* the body the pattern is matched against: spacing normalized
Normalized(r) == Join(Fields(r.body[2]), <<Space>>)

\* The outcomes of one behavior on a message: not triggered, or triggered
\* with the Clyde and the home directory it leaves and the zephyrs it sent,
\* or a panic.  The chainer is given a word limit of 0 to MaxGen words.
StandardBehavior(b, cl, dir, r) ==
    LET body == Normalized(r)
        match == FindStringSubmatchIndex(b.pattern, body)
        keyvals == [key \in b.keys |->
                      ExpandString(b.pattern, key, body, match)]
        Responses(o) ==
            IF b.chain
            THEN UNION { Generate(o.cl.chain, o.response, n) : n \in 0..MaxGen }
            ELSE { o.response }
        Outcomes(o) ==
            IF o.panic
            THEN { [triggered |-> FALSE, cl |-> o.cl, dir |-> o.dir,
                    sent |-> << >>, panic |-> TRUE] }
            ELSE { [triggered |-> TRUE, cl |-> o.cl, dir |-> o.dir,
                    sent |-> Reply(o.cl, r, response), panic |-> FALSE] :
                     response \in Responses(o) }
    IN  IF ~match.found
        THEN { [triggered |-> FALSE, cl |-> cl, dir |-> dir, sent |-> << >>,
                panic |-> FALSE] }
        ELSE UNION { Outcomes(o) : o \in resp(b.name, cl, dir, r, keyvals) }

----------------------------------------------------------------------------
(* The chain under test: calls of Build, NextWord and Generate on one     *)
(* chain, one at a time; `last` holds the call and its result until the   *)
(* caller returns to idle.                                                 *)

Idle == [op |-> "idle"]

\* the Clyde that LoadClyde returns, given the chain and the subscriptions
\* it has loaded
NewClyde(ch, subs) ==
    [chain |-> ch, zsigChain |-> NewChain(zsigPrefixLen), subs |-> subs,
     mood |-> okMood, lastInteraction |-> 0]

\* Run has not been called: no loop goroutine, the channel shutdown open,
\* the ticker running, nothing in the channels; `late` counts the handlers
\* the loop has entered since the channel shutdown was closed
NotRunning ==
    [main |-> "Run", mainStep |-> 0, loop |-> "none", loopStep |-> 0,
     shutdown |-> FALSE, wg |-> 0, tick |-> FALSE, stopped |-> FALSE,
     inbox |-> << >>, arrived |-> 0, r |-> Idle, session |-> "open",
     panicking |-> FALSE, executing |-> {}, done |-> << >>, access |-> {},
     late |-> 0]

\* the number of tokens the chain was trained on (every Add counts its
\* suffix under the empty key)
Trained(ch) ==
    IF HasKey(ch.chain, EmptyString) THEN Total(ch.chain[EmptyString]) ELSE 0

\* The prefixes Build and Generate hand to Add and NextWord: lowercased
\* words, left-padded with empty words.
Prefixes(n) == { ShiftAll(MakePrefix(n), ws) : ws \in SeqsUpTo(Words, n) }

\* The seeds given to Generate: up to one word more than the prefix.
Seeds(n) == { Join(ts, <<Space>>) : ts \in SeqsUpTo(Words, n + 1) }
              \cup Texts(1)

InitChain ==
    /\ c \in { NewChain(zsigPrefixLen), NewChain(prefixLen) }
    /\ last = Idle
    /\ observed = {}
    /\ file = NoFile
    /\ saved = << >>
    /\ clyde = NewClyde(NewChain(prefixLen), << >>)
    /\ home = << >>
    /\ now = 0
    /\ hm = Idle
    /\ proc = NotRunning

CallBuild ==
    /\ last = Idle
    /\ \E text \in Texts(MaxTotal) :
          /\ Trained(c) + Len(Fields(text)) <= MaxTotal
          /\ c' = Build(c, text)
          /\ last' = [op |-> "Build", text |-> text]
          /\ observed' = observed
                \cup AddCalls(MakePrefix(c.prefixLen), Fields(text))
    /\ UNCHANGED <<file, saved>>
    /\ UNCHANGED botVars

CallNextWord ==
    /\ last = Idle
    /\ \E p \in Prefixes(c.prefixLen) :
          \E o \in NextWordOutcomes(c, p) :
            last' = [op |-> "NextWord", p |-> p, w |-> o.w, i |-> o.i,
                     key |-> o.key, order |-> o.order, n |-> o.n]
    /\ UNCHANGED <<c, observed, file, saved>>
    /\ UNCHANGED botVars

CallGenerate ==
    /\ last = Idle
    /\ \E start \in Seeds(c.prefixLen) :
          \E n \in 0..MaxGen :
            \E result \in Generate(c, start, n) :
              last' = [op |-> "Generate", start |-> start, n |-> n,
                       result |-> result]
    /\ UNCHANGED <<c, observed, file, saved>>
    /\ UNCHANGED botVars

Return ==
    /\ last # Idle
    /\ last' = Idle
    /\ UNCHANGED <<c, observed, file, saved>>
    /\ UNCHANGED botVars

NextChain == CallBuild \/ CallNextWord \/ CallGenerate \/ Return

SpecChain == InitChain /\ [][NextChain]_vars

----------------------------------------------------------------------------
(* Persistence of the chain under test: Build, Save to the chain file and *)
(* LoadChain of that file into a new chain.                               *)

\* The words of the texts whose chain is saved: among them a quote and a
\* backslash, which a JSON string holds escaped.
QuotedWords == { <<"a">>, <<"\"", "a">>, <<"\\">> }

QuotedTexts(n) == { Join(ts, <<Space>>) : ts \in SeqsUpTo(QuotedWords, n) }

CallBuildQuoted ==
    /\ last = Idle
    /\ \E text \in QuotedTexts(MaxTotal) :
          /\ Trained(c) + Len(Fields(text)) <= MaxTotal
          /\ c' = Build(c, text)
          /\ last' = [op |-> "Build", text |-> text]
          /\ observed' = observed
                \cup AddCalls(MakePrefix(c.prefixLen), Fields(text))
    /\ UNCHANGED <<file, saved>>
    /\ UNCHANGED botVars

CallSave ==
    /\ last = Idle
    /\ \E created \in BOOLEAN :
          /\ file' = Save(c, file, created)
          /\ saved' = IF created THEN c.chain ELSE saved
          /\ last' = [op |-> "Save", created |-> created]
    /\ UNCHANGED <<c, observed>>
    /\ UNCHANGED botVars

CallLoadChain ==
    /\ last = Idle
    /\ last' = [op |-> "LoadChain", result |-> LoadChain(file, c.prefixLen)]
    /\ UNCHANGED <<c, observed, file, saved>>
    /\ UNCHANGED botVars

NextPersist == CallBuildQuoted \/ CallSave \/ CallLoadChain \/ Return

SpecPersist == InitChain /\ [][NextPersist]_vars

----------------------------------------------------------------------------
(* Clyde.handleMessage.  The trace of a handling: the Clyde the behaviors  *)
(* were given, the behaviors that were evaluated and those that reported   *)
(* they were triggered, in order, and the zephyrs that were sent.          *)

NoTrace(cl) ==
    [given |-> cl, evaluated |-> << >>, performed |-> << >>, sent |-> << >>]

Traced(trace, b, o) ==
    [given |-> trace.given,
     evaluated |-> Append(trace.evaluated, b.name),
     performed |-> IF o.triggered THEN Append(trace.performed, b.name)
                   ELSE trace.performed,
     sent |-> trace.sent \o o.sent]

Handled(cl, dir, trace, panic) ==
    [cl |-> cl, dir |-> dir, trace |-> trace, panic |-> panic]

\* Mutant of PerformFrom: the loop goes on after a behavior has triggered.
RECURSIVE PerformFromNoReturn(_, _, _, _, _, _)
PerformFromNoReturn(cl, dir, r, t, k, trace) ==
    IF k > Len(Behaviors) THEN { Handled(cl, dir, trace, FALSE) }
    ELSE UNION {
           IF o.panic
           THEN { Handled(o.cl, o.dir, Traced(trace, Behaviors[k], o), TRUE) }
           ELSE PerformFromNoReturn(
                  IF o.triggered THEN [o.cl EXCEPT !.lastInteraction = t]
                  ELSE o.cl,
                  o.dir, r, t, k + 1, Traced(trace, Behaviors[k], o))
           : o \in StandardBehavior(Behaviors[k], cl, dir, r) }

\* Mutant of PerformFrom: a behavior that triggers ends the handling, but
\* the time of the last interaction is left as it was.
RECURSIVE PerformFromNoStamp(_, _, _, _, _, _)
PerformFromNoStamp(cl, dir, r, t, k, trace) ==
    IF k > Len(Behaviors) THEN { Handled(cl, dir, trace, FALSE) }
    ELSE UNION {
           IF o.panic
           THEN { Handled(o.cl, o.dir, Traced(trace, Behaviors[k], o), TRUE) }
           ELSE IF o.triggered
           THEN { Handled(o.cl, o.dir, Traced(trace, Behaviors[k], o), FALSE) }
           ELSE PerformFromNoStamp(o.cl, o.dir, r, t, k + 1,
                                   Traced(trace, Behaviors[k], o))
           : o \in StandardBehavior(Behaviors[k], cl, dir, r) }

\* The loop over the behaviors, from the k-th on, at time t: the first
\* behavior that triggers sets the time of the last interaction and ends
\* the handling.
RECURSIVE PerformFrom(_, _, _, _, _, _)
PerformFrom(cl, dir, r, t, k, trace) ==
    IF k > Len(Behaviors) THEN { Handled(cl, dir, trace, FALSE) }
    ELSE UNION {
           IF o.panic
           THEN { Handled(o.cl, o.dir, Traced(trace, Behaviors[k], o), TRUE) }
           ELSE IF o.triggered
           THEN { Handled([o.cl EXCEPT !.lastInteraction = t], o.dir,
                          Traced(trace, Behaviors[k], o), FALSE) }
           ELSE PerformFrom(o.cl, o.dir, r, t, k + 1,
                            Traced(trace, Behaviors[k], o))
           : o \in StandardBehavior(Behaviors[k], cl, dir, r) }

\* c.chain.Build(Body[1]); c.zsigChain.Build(Body[0])
Train(cl, r) ==
    [cl EXCEPT !.chain = Build(@, r.body[2]),
               !.zsigChain = Build(@, r.body[1])]

\* Mutant of handleMessage: the sender is not looked at.
handleMessageOwnToo(cl, dir, r, t) ==
    IF Len(r.body) < 2 THEN { Handled(cl, dir, NoTrace(cl), TRUE) }
    ELSE LET trained == Train(cl, r)
         IN  PerformFrom(trained, dir, r, t, 1, NoTrace(trained))

\* handleMessage at time t: a message of Clyde himself is ignored; Body[1]
\* of a message with fewer than two fields is an index out of range, a
\* panic, before anything is trained.
handleMessage(cl, dir, r, t) ==
    IF r.sender = sender THEN { Handled(cl, dir, NoTrace(cl), FALSE) }
    ELSE IF Len(r.body) < 2 THEN { Handled(cl, dir, NoTrace(cl), TRUE) }
    ELSE LET trained == Train(cl, r)
         IN  PerformFrom(trained, dir, r, t, 1, NoTrace(trained))

----------------------------------------------------------------------------
(* The Clyde handling messages, one at a time; `hm` holds the message and  *)
(* the trace of its handling until the handler returns.  A panic ends the  *)
(* program.                                                                *)

\* The texts of the messages: for every behavior one that its pattern
\* matches, some that several patterns match, and some that none matches.
Utterances ==
    { Chars(""), Chars("hello there"),
      Chars("clyde, bob says hi"), Chars("Clyde, act like bob"),
      Chars("clyde, sub to foo"), Chars("are you on foo"),
      Chars("clyde, cook is a job"), Chars("tell me a story"),
      Chars("  tell  me a   story "), Chars("clyde, tell me a story"),
      Chars("if a and b fought"), Chars("clyde, a"),
      Chars("clyde, bob says sub to foo is a job") }

\* the bodies: no field, the zsig alone, the zsig and the text
Bodies ==
    { << >>, << Chars("hi") >> } \cup { << Chars("hi"), u >> : u \in Utterances }

Channels ==
    { <<homeClass, homeInstance>>, <<homeClass, Chars("x")>>,
      <<Chars("foo"), Chars("x")>> }

Messages ==
    { [sender |-> s, class |-> ch[1], instance |-> ch[2], auth |-> a,
       body |-> b] :
        s \in { Chars("alice@R"), sender }, ch \in Channels,
        a \in BOOLEAN, b \in Bodies }

\* the home directories LoadClyde may find: a file of jobs that is not
\* there, has no line, or has one; a file al/bob that is not there or has
\* no line
Homes ==
    { jobs @@ al :
        jobs \in { << >>, jobsFile :> << >>, jobsFile :> << Chars("cook") >> },
        al \in { << >>, alFile(Chars("bob")) :> << >> } }

InitClyde ==
    /\ clyde \in { NewClyde(ch, subs) :
                     ch \in { NewChain(prefixLen),
                              Build(NewChain(prefixLen), Chars("a a")) },
                     subs \in { << >> } \cup
                              { Chars("foo") :> policy :
                                  policy \in {LISTEN, REPLYHOME, FULL} } }
    /\ home \in Homes
    /\ now = 0
    /\ hm = Idle
    /\ proc = NotRunning
    /\ c = NewChain(prefixLen)
    /\ last = Idle
    /\ observed = {}
    /\ file = NoFile
    /\ saved = << >>

HandleMessage ==
    /\ hm = Idle
    /\ now < MaxMessages
    /\ \E r \in Messages :
          \E o \in handleMessage(clyde, home, r, now + 1) :
             /\ clyde' = o.cl
             /\ home' = o.dir
             /\ hm' = [op |-> "handleMessage", r |-> r, trace |-> o.trace,
                       panic |-> o.panic]
    /\ now' = now + 1
    /\ UNCHANGED chainVars
    /\ UNCHANGED proc

ReturnMessage ==
    /\ hm # Idle
    /\ ~hm.panic
    /\ hm' = Idle
    /\ UNCHANGED <<clyde, home, now>>
    /\ UNCHANGED chainVars
    /\ UNCHANGED proc

NextClyde == HandleMessage \/ ReturnMessage

SpecClyde == InitClyde /\ [][NextClyde]_vars

----------------------------------------------------------------------------
(* The tail of StandardBehavior applied to the responses a resp function   *)
(* may return, the empty string among them                                 *)

Responses == { EmptyString, Chars(" "), Chars("hi") }

CallReply ==
    /\ hm = Idle
    /\ \E r \in { m \in Messages : Len(m.body) >= 2 } :
          \E response \in Responses :
             hm' = [op |-> "Reply", r |-> r, response |-> response,
                    sent |-> Reply(clyde, r, response), panic |-> FALSE]
    /\ UNCHANGED <<clyde, home, now>>
    /\ UNCHANGED chainVars
    /\ UNCHANGED proc

NextReply == CallReply \/ ReturnMessage

\* The question of a fight, on every channel.
fightQuestion == Chars("if the sun and the moon fought, who would win?")

\* Clyde as LoadClyde leaves it in a home directory with no file: either
\* chain file absent or holding "a a", no subscription or one to foo.
InitFight ==
    /\ clyde \in { NewClyde(ch, subs) :
                     ch \in { NewChain(prefixLen),
                              Build(NewChain(prefixLen), Chars("a a")) },
                     subs \in { << >>, Chars("foo") :> FULL } }
    /\ home = << >>
    /\ now = 0
    /\ hm = Idle
    /\ proc = NotRunning
    /\ c = NewChain(prefixLen)
    /\ last = Idle
    /\ observed = {}
    /\ file = NoFile
    /\ saved = << >>

FightMessages ==
    { [sender |-> Chars("alice@R"), class |-> ch[1], instance |-> ch[2],
       auth |-> a, body |-> << Chars("hi"), fightQuestion >>] :
        ch \in Channels, a \in BOOLEAN }

HandleFight ==
    /\ hm = Idle
    /\ now < MaxMessages
    /\ \E r \in FightMessages :
          \E o \in handleMessage(clyde, home, r, now + 1) :
             /\ clyde' = o.cl
             /\ home' = o.dir
             /\ hm' = [op |-> "handleMessage", r |-> r, trace |-> o.trace,
                       panic |-> o.panic]
    /\ now' = now + 1
    /\ UNCHANGED chainVars
    /\ UNCHANGED proc

NextFight == HandleFight \/ ReturnMessage

SpecFight == InitFight /\ [][NextFight]_vars

SpecReply == InitClyde /\ [][NextReply]_vars

----------------------------------------------------------------------------
(* The moods: package mood, and the mood of the Clyde under the ticker.    *)
(* Time is counted in hours.                                               *)

Ok == 5
max == 7

lonelyMood == 3
goodMood == 6
greatMood == 7
maxMood == 7

\* Mutant of Better: the step is taken at the maximum too.
BetterUnclamped(m) == m + 1

Better(m) == IF m + 1 > max THEN max ELSE m + 1

Worse(m) == IF m - 1 < 0 THEN 0 ELSE m - 1

\* Mutant of AtLeastOk: the mood is returned as it is.
AtLeastOkNoFloor(m) == m

AtLeastOk(m) == IF m < Ok THEN Ok ELSE m

boredFile == Chars("bored")

Ticked(cl, sent, panic) == [cl |-> cl, sent |-> sent, panic |-> panic]

\* handleTick with the mood threshold of one hour instead of two
handleTickEarlyMood(cl, dir, t) ==
    LET aloneDuration == t - cl.lastInteraction
        Silent == [phrase |-> EmptyString, panic |-> FALSE]
        Phrases ==
            IF aloneDuration >= 1
            THEN {Silent}
                 \cup (CASE cl.mood = lonelyMood ->
                              { [phrase |-> o.line, panic |-> o.panic] :
                                  o \in randomLine(dir, boredFile) }
                         [] cl.mood = goodMood ->
                              { [phrase |-> Chars("Hi, all."),
                                 panic |-> FALSE] }
                         [] cl.mood = greatMood ->
                              { [phrase |-> Chars("*bounce*"),
                                 panic |-> FALSE] }
                         [] OTHER -> {Silent})
            ELSE {Silent}
        Moods == IF aloneDuration >= 1 THEN {cl.mood, lonelyMood}
                 ELSE {cl.mood}
        After(p) ==
            IF p.panic THEN { Ticked(cl, << >>, TRUE) }
            ELSE { Ticked([cl EXCEPT !.mood = m],
                          IF p.phrase # EmptyString
                          THEN << send(homeClass, homeInstance, p.phrase) >>
                          ELSE << >>,
                          FALSE) : m \in Moods }
    IN  UNION { After(p) : p \in Phrases }

\* handleTick at time t: the outcomes for every value of the two rand.Intn
\* draws and every line randomLine may pick
handleTick(cl, dir, t) ==
    LET aloneDuration == t - cl.lastInteraction
        Silent == [phrase |-> EmptyString, panic |-> FALSE]
        Phrases ==
            IF aloneDuration >= 1
            THEN {Silent}
                 \cup (CASE cl.mood = lonelyMood ->
                              { [phrase |-> o.line, panic |-> o.panic] :
                                  o \in randomLine(dir, boredFile) }
                         [] cl.mood = goodMood ->
                              { [phrase |-> Chars("Hi, all."),
                                 panic |-> FALSE] }
                         [] cl.mood = greatMood ->
                              { [phrase |-> Chars("*bounce*"),
                                 panic |-> FALSE] }
                         [] OTHER -> {Silent})
            ELSE {Silent}
        Moods == IF aloneDuration >= 2 THEN {cl.mood, lonelyMood}
                 ELSE {cl.mood}
        After(p) ==
            IF p.panic THEN { Ticked(cl, << >>, TRUE) }
            ELSE { Ticked([cl EXCEPT !.mood = m],
                          IF p.phrase # EmptyString
                          THEN << send(homeClass, homeInstance, p.phrase) >>
                          ELSE << >>,
                          FALSE) : m \in Moods }
    IN  UNION { After(p) : p \in Phrases }

MaxHours == 3

InitMood ==
    /\ clyde = NewClyde(NewChain(prefixLen), << >>)
    /\ home \in { << >>, boredFile :> << >>,
                  boredFile :> << Chars("zzz") >> }
    /\ now = 0
    /\ hm = Idle
    /\ proc = NotRunning
    /\ c = NewChain(prefixLen)
    /\ last = Idle
    /\ observed = {}
    /\ file = NoFile
    /\ saved = << >>

\* an hour passes
Pass ==
    /\ hm = Idle
    /\ now < MaxHours
    /\ now' = now + 1
    /\ UNCHANGED <<clyde, home, hm>>
    /\ UNCHANGED chainVars
    /\ UNCHANGED proc

HandleTick ==
    /\ hm = Idle
    /\ \E o \in handleTick(clyde, home, now) :
          /\ clyde' = o.cl
          /\ hm' = [op |-> "handleTick", m |-> clyde.mood, given |-> clyde,
                    t |-> now, sent |-> o.sent, panic |-> o.panic]
    /\ UNCHANGED <<home, now>>
    /\ UNCHANGED chainVars
    /\ UNCHANGED proc

CallBetter ==
    /\ hm = Idle
    /\ clyde' = [clyde EXCEPT !.mood = Better(clyde.mood)]
    /\ hm' = [op |-> "Better", m |-> clyde.mood, panic |-> FALSE]
    /\ UNCHANGED <<home, now>>
    /\ UNCHANGED chainVars
    /\ UNCHANGED proc

CallWorse ==
    /\ hm = Idle
    /\ clyde' = [clyde EXCEPT !.mood = Worse(clyde.mood)]
    /\ hm' = [op |-> "Worse", m |-> clyde.mood, panic |-> FALSE]
    /\ UNCHANGED <<home, now>>
    /\ UNCHANGED chainVars
    /\ UNCHANGED proc

CallAtLeastOk ==
    /\ hm = Idle
    /\ clyde' = [clyde EXCEPT !.mood = AtLeastOk(clyde.mood)]
    /\ hm' = [op |-> "AtLeastOk", m |-> clyde.mood, panic |-> FALSE]
    /\ UNCHANGED <<home, now>>
    /\ UNCHANGED chainVars
    /\ UNCHANGED proc

NextMood ==
    \/ Pass
    \/ HandleTick
    \/ CallBetter
    \/ CallWorse
    \/ CallAtLeastOk
    \/ ReturnMessage

SpecMood == InitMood /\ [][NextMood]_vars

----------------------------------------------------------------------------
(* LoadClyde.  The three JSON files are in the home directory; the text of *)
(* one is the sequence of its members, and a text that ends before the     *)
(* value of a member (a member of its key alone) is a syntax error.        *)

chainFile == Chars("chain.json")
zsigChainFile == Chars("zsigChain.json")
subsFile == Chars("subs.json")

\* the text {"key": and nothing after it
CutShort(key) == << << JSONEscape(key) >> >>

\* every member of the object has its value
Complete(doc) == \A i \in 1..Len(doc) : Len(doc[i]) = 2

\* the text of a chain file parses
ParsesChain(doc) ==
    /\ Complete(doc)
    /\ \A i \in 1..Len(doc) : Complete(doc[i][2])

\* Chain.Load: the file is decoded into the chain; a file that is not there
\* is reported as such, a file that does not parse leaves the chain empty
\* and is not reported
Load(ch, dir, filename) ==
    IF filename \notin DOMAIN dir THEN [chain |-> ch, err |-> "notExist"]
    ELSE IF ParsesChain(dir[filename])
    THEN [chain |-> [ch EXCEPT !.chain = Decode(dir[filename])],
          err |-> "nil"]
    ELSE [chain |-> ch, err |-> "nil"]

\* enc.Encode(c.subs) and dec.Decode(&(c.subs))
EncodeSubs(subs) ==
    LET ks == SortedKeys(DOMAIN subs)
    IN  [i \in 1..Len(ks) |-> <<JSONEscape(ks[i]), Digits(subs[ks[i]])>>]

\* loadSubs: the error of os.Open or of Decode, which stores nothing of a
\* text with a syntax error; the classes with a policy are subscribed to
loadSubs(subs, dir) ==
    IF subsFile \notin DOMAIN dir
    THEN [subs |-> subs, err |-> "notExist", subList |-> {}]
    ELSE IF ~Complete(dir[subsFile])
    THEN [subs |-> subs, err |-> "syntax", subList |-> {}]
    ELSE LET loaded == DecodeFreqs(dir[subsFile]) @@ subs
         IN  [subs |-> loaded, err |-> "nil",
              subList |-> { class \in DOMAIN loaded : loaded[class] # 0 }]

\* the steps of LoadClyde that fail of themselves
Failures == {"MkdirAll", "DialSystemDefault", "NewContext"}

Loaded(cl, subscribed) ==
    [err |-> "nil", step |-> "return", cl |-> cl, subscribed |-> subscribed]

Failed(step, err) == [err |-> err, step |-> step]

\* Mutant of LoadClyde: an error of Load is returned whatever it is.
LoadClydeAnyError(dir, fails) ==
    LET chain == Load(NewChain(prefixLen), dir, chainFile)
        zsigChain == Load(NewChain(zsigPrefixLen), dir, zsigChainFile)
        subs == loadSubs(<< >>, dir)
    IN  IF fails \in Failures THEN Failed(fails, fails)
        ELSE IF chain.err # "nil" THEN Failed("chain.Load", chain.err)
        ELSE IF zsigChain.err # "nil"
        THEN Failed("zsigChain.Load", zsigChain.err)
        ELSE IF subs.err \notin {"nil", "notExist"}
        THEN Failed("loadSubs", subs.err)
        ELSE Loaded([NewClyde(chain.chain, subs.subs)
                       EXCEPT !.zsigChain = zsigChain.chain],
                    { <<homeClass, homeInstance>> }
                    \cup { <<class, Chars("*")>> : class \in subs.subList })

\* LoadClyde: the error it returns and the step that gave it, or the Clyde
\* and the subscriptions sent to the server
LoadClyde(dir, fails) ==
    LET chain == Load(NewChain(prefixLen), dir, chainFile)
        zsigChain == Load(NewChain(zsigPrefixLen), dir, zsigChainFile)
        subs == loadSubs(<< >>, dir)
    IN  IF fails \in Failures THEN Failed(fails, fails)
        ELSE IF chain.err \notin {"nil", "notExist"}
        THEN Failed("chain.Load", chain.err)
        ELSE IF zsigChain.err \notin {"nil", "notExist"}
        THEN Failed("zsigChain.Load", zsigChain.err)
        ELSE IF subs.err \notin {"nil", "notExist"}
        THEN Failed("loadSubs", subs.err)
        ELSE Loaded([NewClyde(chain.chain, subs.subs)
                       EXCEPT !.zsigChain = zsigChain.chain],
                    { <<homeClass, homeInstance>> }
                    \cup { <<class, Chars("*")>> : class \in subs.subList })

\* no Clyde yet
NoClyde == [loaded |-> FALSE]

\* a file of the home directory, or none when there is no content
FileOf(filename, contents) ==
    IF contents = {} THEN << >>
    ELSE filename :> (CHOOSE doc \in contents : TRUE)

\* The home directories LoadClyde finds: each file absent, as a Save wrote
\* it, or cut short.
LoadHomes ==
    { FileOf(chainFile, ch) @@ FileOf(zsigChainFile, zs)
        @@ FileOf(subsFile, sb) :
        ch \in { {}, { Encode(<< >>) },
                 { Encode(Build(NewChain(prefixLen), Chars("a b")).chain) },
                 { CutShort(Chars("a")) } },
        zs \in { {}, { Encode(Build(NewChain(zsigPrefixLen),
                                    Chars("hi")).chain) },
                 { CutShort(EmptyString) } },
        sb \in { {}, { EncodeSubs(Chars("foo") :> REPLYHOME) },
                 { EncodeSubs(Chars("foo") :> 0) },
                 { CutShort(Chars("foo")) } } }

InitLoad ==
    /\ clyde = NoClyde
    /\ home \in LoadHomes
    /\ now = 0
    /\ hm = Idle
    /\ proc = NotRunning
    /\ c = NewChain(prefixLen)
    /\ last = Idle
    /\ observed = {}
    /\ file = NoFile
    /\ saved = << >>

\* main calls LoadClyde, and ends when it returns an error
CallLoadClyde ==
    /\ hm = Idle
    /\ clyde = NoClyde
    /\ \E fails \in Failures \cup {"none"} :
          LET o == LoadClyde(home, fails)
          IN  /\ hm' = [op |-> "LoadClyde", o |-> o,
                        panic |-> o.err # "nil"]
              /\ clyde' = IF o.err = "nil" THEN o.cl ELSE clyde
    /\ UNCHANGED <<home, now>>
    /\ UNCHANGED chainVars
    /\ UNCHANGED proc

NextLoad == CallLoadClyde \/ ReturnMessage

SpecLoad == InitLoad /\ [][NextLoad]_vars

----------------------------------------------------------------------------
(* Clyde.Run and Clyde.Shutdown: the loop goroutine and the goroutine of   *)
(* the caller, step by step.  Shutdown and handleShutdown are the          *)
(* sequences of their steps; a handler is entered when the select          *)
(* receives its event and has acted when it returns.                       *)

\* Mutant of Shutdown: the caller does not wait for the loop.
ShutdownNoWait == << "close", "sessionClose" >>

\* Mutant of Shutdown: the caller saves the chain itself.
ShutdownSaves == << "close", "chainSave", "wgWait", "sessionClose" >>

Shutdown == << "close", "wgWait", "sessionClose" >>

handleShutdown ==
    << "tickerStop", "chainSave", "zsigSave", "saveSubs", "cancelSubs",
       "wgDone" >>

\* the steps that write a file of the home directory
Saves == {"chainSave", "zsigSave", "saveSubs"}

\* the fields of the Clyde a step or a handler reads or writes
Touches(step) ==
    CASE step = "chainSave" -> {"chain"}
      [] step = "zsigSave" -> {"zsigChain"}
      [] step = "saveSubs" -> {"subs"}
      [] step = "handleTick" -> {"mood", "lastInteraction"}
      [] step = "handleMessage" ->
           {"chain", "zsigChain", "subs", "lastInteraction"}
      [] OTHER -> {}

\* wg.Wait returns when the counter is zero
Ready(step, p) == step = "wgWait" => p.wg = 0

\* the directory after a file is saved: os.Create may fail
SaveTo(dir, filename, doc) == { dir, (filename :> doc) @@ dir }

DirsAfter(step, cl, dir) ==
    CASE step = "chainSave" -> SaveTo(dir, chainFile, Encode(cl.chain.chain))
      [] step = "zsigSave" ->
           SaveTo(dir, zsigChainFile, Encode(cl.zsigChain.chain))
      [] step = "saveSubs" -> SaveTo(dir, subsFile, EncodeSubs(cl.subs))
      [] OTHER -> {dir}

\* what the goroutines share after goroutine g took the step
Took(step, g, p) ==
    LET q == [p EXCEPT !.access = @ \cup { <<g, f>> : f \in Touches(step) },
                       !.done = IF step \in Saves THEN Append(@, step)
                                ELSE @]
    IN  CASE step = "close" -> [q EXCEPT !.shutdown = TRUE]
          [] step = "sessionClose" -> [q EXCEPT !.session = "closed"]
          [] step = "tickerStop" -> [q EXCEPT !.stopped = TRUE]
          [] step = "wgDone" -> [q EXCEPT !.wg = @ - 1]
          [] OTHER -> q

MaxArrivals == 2

\* the messages that arrive: one no pattern matches, one that is answered,
\* one of a single field
RunMessages ==
    { [sender |-> Chars("alice@R"), class |-> homeClass,
       instance |-> homeInstance, auth |-> TRUE, body |-> body] :
        body \in { << Chars("hi"), Chars("hello there") >>,
                   << Chars("hi"), Chars("are you on foo") >>,
                   << Chars("hi") >> } }

InitRun ==
    /\ clyde = NewClyde(NewChain(prefixLen), << >>)
    /\ home = << >>
    /\ now = 0
    /\ hm = Idle
    /\ proc = NotRunning
    /\ c = NewChain(prefixLen)
    /\ last = Idle
    /\ observed = {}
    /\ file = NoFile
    /\ saved = << >>

\* the program has not crashed
Alive == proc.loop # "crashed"

\* Run: the counter is raised and the loop goroutine started
CallRun ==
    /\ Alive
    /\ proc.main = "Run"
    /\ proc' = [proc EXCEPT !.main = "serve", !.wg = @ + 1, !.loop = "check"]
    /\ UNCHANGED <<clyde, home, now, hm>>
    /\ UNCHANGED chainVars

\* the caller of Run calls Shutdown
CallShutdown ==
    /\ Alive
    /\ proc.main = "serve"
    /\ proc' = [proc EXCEPT !.main = "Shutdown", !.mainStep = 1]
    /\ UNCHANGED <<clyde, home, now, hm>>
    /\ UNCHANGED chainVars

ShutdownStep ==
    /\ Alive
    /\ proc.main = "Shutdown"
    /\ LET step == Shutdown[proc.mainStep]
           returns == proc.mainStep = Len(Shutdown)
       IN  /\ Ready(step, proc)
           /\ home' \in DirsAfter(step, clyde, home)
           /\ proc' = [Took(step, "main", proc) EXCEPT
                         !.main = IF returns THEN "returned" ELSE @,
                         !.mainStep = IF returns THEN 0 ELSE @ + 1]
    /\ UNCHANGED <<clyde, now, hm>>
    /\ UNCHANGED chainVars

\* the ticker puts a tick in its channel, which holds one
Tick ==
    /\ Alive
    /\ ~proc.stopped
    /\ ~proc.tick
    /\ proc' = [proc EXCEPT !.tick = TRUE]
    /\ UNCHANGED <<clyde, home, now, hm>>
    /\ UNCHANGED chainVars

\* the session receives a message
Arrive ==
    /\ Alive
    /\ proc.session = "open"
    /\ proc.inbox = << >>
    /\ proc.arrived < MaxArrivals
    /\ \E r \in RunMessages :
          proc' = [proc EXCEPT !.inbox = << r >>, !.arrived = @ + 1]
    /\ UNCHANGED <<clyde, home, now, hm>>
    /\ UNCHANGED chainVars

\* an hour passes
Elapse ==
    /\ Alive
    /\ now < MaxHours
    /\ now' = now + 1
    /\ UNCHANGED <<clyde, home, hm, proc>>
    /\ UNCHANGED chainVars

\* Mutant of Check: the loop has no first select.
CheckNoShutdown ==
    /\ Alive
    /\ proc.loop = "check"
    /\ proc' = [proc EXCEPT !.loop = "select"]
    /\ UNCHANGED <<clyde, home, now, hm>>
    /\ UNCHANGED chainVars

\* the first select of the loop: return when shutdown is closed
Check ==
    /\ Alive
    /\ proc.loop = "check"
    /\ proc' = IF proc.shutdown
               THEN [proc EXCEPT !.loop = "handleShutdown", !.loopStep = 1,
                                 !.executing = @ \cup {"handleShutdown"}]
               ELSE [proc EXCEPT !.loop = "select"]
    /\ UNCHANGED <<clyde, home, now, hm>>
    /\ UNCHANGED chainVars

\* the second select of the loop: one of the cases that can proceed
SelectTick ==
    /\ Alive
    /\ proc.loop = "select"
    /\ proc.tick
    /\ proc' = [proc EXCEPT !.loop = "handleTick", !.tick = FALSE,
                            !.executing = @ \cup {"handleTick"},
                            !.late = IF proc.shutdown THEN @ + 1 ELSE @]
    /\ UNCHANGED <<clyde, home, now, hm>>
    /\ UNCHANGED chainVars

SelectMessage ==
    /\ Alive
    /\ proc.loop = "select"
    /\ proc.inbox # << >>
    /\ proc' = [proc EXCEPT !.loop = "handleMessage", !.r = Head(proc.inbox),
                            !.inbox = Tail(@),
                            !.executing = @ \cup {"handleMessage"},
                            !.late = IF proc.shutdown THEN @ + 1 ELSE @]
    /\ UNCHANGED <<clyde, home, now, hm>>
    /\ UNCHANGED chainVars

SelectShutdown ==
    /\ Alive
    /\ proc.loop = "select"
    /\ proc.shutdown
    /\ proc' = [proc EXCEPT !.loop = "handleShutdown", !.loopStep = 1,
                            !.executing = @ \cup {"handleShutdown"}]
    /\ UNCHANGED <<clyde, home, now, hm>>
    /\ UNCHANGED chainVars

\* the loop after a handler: the next iteration, or, when the handler
\* panicked, the deferred handleShutdown
Resumed(p, handler, panic) ==
    LET q == Took(handler, "loop", p)
    IN  IF panic
        THEN [q EXCEPT !.loop = "handleShutdown", !.loopStep = 1,
                       !.panicking = TRUE,
                       !.executing = (@ \ {handler})
                                     \cup {"handleShutdown"}]
        ELSE [q EXCEPT !.loop = "check", !.executing = @ \ {handler}]

ReturnTick ==
    /\ Alive
    /\ proc.loop = "handleTick"
    /\ \E o \in handleTick(clyde, home, now) :
          /\ clyde' = o.cl
          /\ proc' = Resumed(proc, "handleTick", o.panic)
    /\ UNCHANGED <<home, now, hm>>
    /\ UNCHANGED chainVars

ReturnHandleMessage ==
    /\ Alive
    /\ proc.loop = "handleMessage"
    /\ \E o \in handleMessage(clyde, home, proc.r, now) :
          /\ clyde' = o.cl
          /\ home' = o.dir
          /\ proc' = Resumed(proc, "handleMessage", o.panic)
    /\ UNCHANGED <<now, hm>>
    /\ UNCHANGED chainVars

HandleShutdownStep ==
    /\ Alive
    /\ proc.loop = "handleShutdown"
    /\ LET step == handleShutdown[proc.loopStep]
           returns == proc.loopStep = Len(handleShutdown)
       IN  /\ home' \in DirsAfter(step, clyde, home)
           /\ proc' = [Took(step, "loop", proc) EXCEPT
                         !.loop = IF ~returns THEN @
                                  ELSE IF proc.panicking THEN "unwinding"
                                  ELSE "exited",
                         !.loopStep = IF returns THEN 0 ELSE @ + 1,
                         !.executing = IF returns THEN @ \ {"handleShutdown"}
                                       ELSE @]
    /\ UNCHANGED <<clyde, now, hm>>
    /\ UNCHANGED chainVars

\* the panic of a handler ends the program once the deferred call is done
Crash ==
    /\ proc.loop = "unwinding"
    /\ proc' = [proc EXCEPT !.loop = "crashed"]
    /\ UNCHANGED <<clyde, home, now, hm>>
    /\ UNCHANGED chainVars

NextRun ==
    \/ CallRun
    \/ CallShutdown
    \/ ShutdownStep
    \/ Tick
    \/ Arrive
    \/ Elapse
    \/ Check
    \/ SelectTick
    \/ SelectMessage
    \/ SelectShutdown
    \/ ReturnTick
    \/ ReturnHandleMessage
    \/ HandleShutdownStep
    \/ Crash

SpecRun == InitRun /\ [][NextRun]_vars

----------------------------------------------------------------------------
(* Vocabulary of the properties, stated apart from the operators above *)

\* the count recorded for suffix w under key (0 when there is none)
Count(m, key, w) ==
    IF key \in DOMAIN m /\ w \in DOMAIN m[key] THEN m[key][w] ELSE 0

AllKeys(m1, m2) == DOMAIN m1 \cup DOMAIN m2

AllSuffixes(m1, m2) ==
    UNION ({ DOMAIN m1[k] : k \in DOMAIN m1 }
           \cup { DOMAIN m2[k] : k \in DOMAIN m2 })

\* the key has at least one recorded suffix
Populated(m, key) == \E w \in AllSuffixes(m, m) : Count(m, key, w) >= 1

\* the rolling prefix before position k of a token sequence: the previous
\* n tokens, lowercased, left-padded with empty words
RollingPrefix(tokens, k, n) ==
    [j \in 1..n |->
        IF k - 1 - n + j >= 1 THEN ToLower(tokens[k - 1 - n + j])
        ELSE EmptyString]

\* the tail of p that drops its first j words, as a key
TailKey(p, j) == Join(SubSeq(p, j + 1, Len(p)), <<Space>>)

\* the empty key and every tail of p that begins with a non-empty word
TrainedKeys(p) ==
    { EmptyString }
    \cup { TailKey(p, j) : j \in { i \in 0..(Len(p) - 1) : p[i + 1] # EmptyString } }

----------------------------------------------------------------------------
(* C1: training on a token sequence leaves, for every position k, a count  *)
(* >= 1 for (key, token k) under the empty key and under every tail of the *)
(* rolling prefix that begins with a non-empty word; each Add increments   *)
(* exactly those counts by 1 and no other entry changes.                   *)
C1_TrainingCounts ==
    [][ last'.op = "Build" =>
          LET tokens == Fields(last'.text)
              n == c.prefixLen
              hits(key, w) ==
                { k \in 1..Len(tokens) :
                    /\ tokens[k] = w
                    /\ key \in TrainedKeys(RollingPrefix(tokens, k, n)) }
          IN  /\ \A k \in 1..Len(tokens) :
                    \A key \in TrainedKeys(RollingPrefix(tokens, k, n)) :
                      Count(c'.chain, key, tokens[k]) >= 1
              /\ \A key \in AllKeys(c.chain, c'.chain) :
                    \A w \in AllSuffixes(c.chain, c'.chain) :
                      Count(c'.chain, key, w)
                        = Count(c.chain, key, w) + Cardinality(hits(key, w))
      ]_vars

\* a text of three or more tokens, one of them uppercase, was trained into
\* a chain of prefix length 2 that already held counts
C1_Witness ==
    /\ last.op = "Build"
    /\ c.prefixLen = prefixLen
    /\ Len(Fields(last.text)) >= 3
    /\ \E k \in 1..Len(Fields(last.text)) :
          Fields(last.text)[k] # ToLower(Fields(last.text)[k])
    /\ Trained(c) > Len(Fields(last.text))

----------------------------------------------------------------------------
(* C2: NextWord tries the tails of the prefix from the full prefix to the  *)
(* empty key and draws from the first key that has recorded suffixes: it   *)
(* returns the empty string only when no tail has any, and otherwise a     *)
(* suffix recorded under that first populated key.                         *)
C2_NextWordFallback ==
    last.op = "NextWord" =>
      LET n == c.prefixLen
          populated == { j \in 0..n : Populated(c.chain, TailKey(last.p, j)) }
      IN  IF populated = {}
          THEN last.w = EmptyString
          ELSE LET first == CHOOSE j \in populated :
                              \A j2 \in populated : j <= j2
               IN  /\ last.w # EmptyString
                   /\ Count(c.chain, TailKey(last.p, first), last.w) >= 1

\* NextWord fell back: the full prefix has no entry, a shorter non-empty
\* tail has, and a word was returned
C2_Witness ==
    /\ last.op = "NextWord"
    /\ c.prefixLen = prefixLen
    /\ ~Populated(c.chain, TailKey(last.p, 0))
    /\ Populated(c.chain, TailKey(last.p, 1))
    /\ last.p[2] # EmptyString
    /\ last.w # EmptyString

----------------------------------------------------------------------------
(* C3: in the weighted draw of NextWord, for the selected key with total   *)
(* weight T and the scan order of the call, the number of draws n in       *)
(* [0, T) that return a suffix equals the count recorded for that suffix.  *)
C3_DrawsMatchCounts ==
    (last.op = "NextWord" /\ last.i >= 0) =>
      LET freqs == c.chain[last.key]
          T == Total(freqs)
      IN  \A w \in DOMAIN freqs :
            Cardinality({ n \in 0..(T - 1) :
                            Scan(freqs, last.order, n).w = w }) = freqs[w]

----------------------------------------------------------------------------
(* C4, as claimed: if (p, w) was observed in training and no other word    *)
(* was observed after the same full prefix p, NextWord(p) returns w, for   *)
(* every p that training produces, left-padded ones included.              *)
OnlySuffix(p, w) ==
    /\ <<p, w>> \in observed
    /\ \A o \in observed : o[1] = p => o[2] = w

----------------------------------------------------------------------------
(* C5: Generate returns the words of the seed, in order, followed by at    *)
(* most n generated words; each generated word is what NextWord may return *)
(* for the previous prefixLen words (lowercased, left-padded when the seed *)
(* is shorter), and fewer than n words are generated only when NextWord    *)
(* returns the empty string.                                               *)
C5_GenerateShape ==
    last.op = "Generate" =>
      LET seed == Fields(last.start)
          out == Fields(last.result)
          n == c.prefixLen
      IN  /\ last.result = Join(out, <<Space>>)
          /\ Len(out) >= Len(seed)
          /\ SubSeq(out, 1, Len(seed)) = seed
          /\ Len(out) - Len(seed) <= last.n
          /\ \A k \in (Len(seed) + 1)..Len(out) :
                out[k] \in NextWord(c, RollingPrefix(out, k, n))
          /\ Len(out) - Len(seed) < last.n =>
                EmptyString \in NextWord(c, RollingPrefix(out, Len(out) + 1, n))

\* a seed of more words than the prefix holds, continued by the full n
\* words from a trained chain
C5_Witness ==
    /\ last.op = "Generate"
    /\ c.prefixLen = prefixLen
    /\ Len(Fields(last.start)) > prefixLen
    /\ last.n = MaxGen
    /\ Len(Fields(last.result)) = Len(Fields(last.start)) + MaxGen

----------------------------------------------------------------------------
(* C7: no operation on a chain removes a key or a suffix or lowers a       *)
(* count; NextWord and Generate leave the model unchanged.                 *)
C7_Monotonic ==
    [][ /\ \A key \in DOMAIN c.chain :
              /\ key \in DOMAIN c'.chain
              /\ \A w \in DOMAIN c.chain[key] :
                    /\ w \in DOMAIN c'.chain[key]
                    /\ c'.chain[key][w] >= c.chain[key][w]
        /\ last'.op \in {"NextWord", "Generate"} => c' = c
      ]_vars

\* a query has run on a chain in which training raised a count above 1
\* and that holds more than one suffix under one key
C7_Witness ==
    /\ last.op \in {"NextWord", "Generate"}
    /\ \E key \in DOMAIN c.chain :
          /\ \E w \in DOMAIN c.chain[key] : c.chain[key][w] >= 2
          /\ Cardinality(DOMAIN c.chain[key]) >= 2

----------------------------------------------------------------------------
(* C8: Build on a text without tokens (empty, or only whitespace) leaves   *)
(* every key, suffix and count unchanged.                                  *)
C8_EmptyTextNoChange ==
    [][ (last'.op = "Build" /\ Fields(last'.text) = << >>) => c' = c ]_vars

\* a whitespace-only text was given to Build on a trained chain
C8_Witness ==
    /\ last.op = "Build"
    /\ last.text # EmptyString
    /\ Fields(last.text) = << >>
    /\ Trained(c) > 0

----------------------------------------------------------------------------
(* C6: loading the file a chain was saved to, into a new chain of the same *)
(* prefix length, gives exactly the keys, suffixes and counts that were    *)
(* saved.                                                                  *)
C6_SaveLoadRoundTrip ==
    (last.op = "LoadChain" /\ file.exists) =>
      /\ last.result.prefixLen = c.prefixLen
      /\ last.result.chain = saved

\* a chain with several keys, a key with two suffixes and a count above 1
\* was saved, trained further, and the file was then loaded
C6_Witness ==
    /\ last.op = "LoadChain"
    /\ file.exists
    /\ c.chain # saved
    /\ Cardinality(DOMAIN saved) >= 3
    /\ \E key \in DOMAIN saved :
          /\ Cardinality(DOMAIN saved[key]) >= 2
          /\ \E w \in DOMAIN saved[key] : saved[key][w] >= 2
    /\ \E key \in DOMAIN saved :
          /\ \E i \in DOMAIN key : key[i] = "\""
          /\ \E w \in DOMAIN saved[key] : \E i \in DOMAIN w : w[i] = "\\"

----------------------------------------------------------------------------
(* Vocabulary of the properties of handleMessage *)

BehaviorNames == [k \in 1..Len(Behaviors) |-> Behaviors[k].name]

\* the pattern of behavior k matches the text of the message
Matches(k, r) ==
    FindStringSubmatchIndex(Behaviors[k].pattern,
                            Join(Fields(r.body[2]), <<Space>>)).found

\* field k of the body of a message, empty when the body has no such field
FieldOf(r, k) == IF k <= Len(r.body) THEN r.body[k] ELSE EmptyString

----------------------------------------------------------------------------
(* C9: handleMessage evaluates the behaviors in the order of the list and  *)
(* stops at the first that reports it was triggered: the behaviors         *)
(* evaluated are an initial part of the list, none of them but the last    *)
(* matched or was performed, at most one behavior is performed and at most *)
(* one zephyr is sent, and the whole list is evaluated when none triggers. *)
C9_FirstTriggeredStops ==
    hm.op = "handleMessage" =>
      LET n == Len(hm.trace.evaluated)
      IN  /\ hm.trace.evaluated = SubSeq(BehaviorNames, 1, n)
          /\ \A k \in 1..(n - 1) : ~Matches(k, hm.r)
          /\ Len(hm.trace.performed) <= 1
          /\ Len(hm.trace.sent) <= 1
          /\ hm.trace.performed # << >> =>
               /\ n >= 1
               /\ hm.trace.performed = << BehaviorNames[n] >>
               /\ Matches(n, hm.r)
          /\ (hm.trace.performed = << >> /\ ~hm.panic
                /\ hm.r.sender # sender) => n = Len(Behaviors)

\* a behavior was performed and sent its reply although two behaviors
\* later in the list match the same message
C9_Witness ==
    /\ hm.op = "handleMessage"
    /\ Len(hm.trace.performed) = 1
    /\ Len(hm.trace.sent) = 1
    /\ Cardinality({ k \in (Len(hm.trace.evaluated) + 1)..Len(Behaviors) :
                       Matches(k, hm.r) }) >= 2

----------------------------------------------------------------------------
(* C10: for every message that is handled (its sender is not Clyde), the   *)
(* text is trained into the main chain and the zsig into the zsig chain    *)
(* before any behavior is evaluated: the behaviors are given the trained   *)
(* chains, and the chains are the trained ones after the handling,         *)
(* whether or not a behavior triggers or a zephyr is sent.                 *)
C10_TrainedBeforeDispatch ==
    [][ (hm.op = "idle" /\ hm'.op = "handleMessage"
           /\ hm'.r.sender # sender) =>
          LET chain == Build(clyde.chain, FieldOf(hm'.r, 2))
              zsigChain == Build(clyde.zsigChain, FieldOf(hm'.r, 1))
          IN  /\ hm'.trace.given.chain = chain
              /\ hm'.trace.given.zsigChain = zsigChain
              /\ clyde'.chain = chain
              /\ clyde'.zsigChain = zsigChain ]_vars

----------------------------------------------------------------------------
(* Vocabulary of the properties of the replies *)

\* the message arrived on the home class and instance
AtHome(r) == r.class = homeClass /\ r.instance = homeInstance

\* some pattern matches the text of the message
SomeMatch(r) == \E k \in 1..Len(Behaviors) : Matches(k, r)

\* the first behavior of the list whose pattern matches the text
FirstMatch(r) ==
    CHOOSE k \in 1..Len(Behaviors) :
       Matches(k, r) /\ \A j \in 1..(k - 1) : ~Matches(j, r)

\* the text of the message names Clyde, in any case of the letters
NamesClyde(r) ==
    \E i \in 1..Len(r.body[2]) :
       /\ i + 4 <= Len(r.body[2])
       /\ r.body[2][i] \in {"c", "C"} /\ r.body[2][i + 1] \in {"l", "L"}
       /\ r.body[2][i + 2] \in {"y", "Y"} /\ r.body[2][i + 3] \in {"d", "D"}
       /\ r.body[2][i + 4] \in {"e", "E"}

----------------------------------------------------------------------------
(* C11: when a pattern matches a message that arrived off the home class   *)
(* and instance on a class whose policy is LISTEN or that has no policy,   *)
(* no zephyr is sent, the first matching behavior is the last one          *)
(* evaluated (and is the one performed, unless it panics), and the text    *)
(* and the zsig have been trained into the chains.                         *)
C11_SilentListen ==
    [][ (hm.op = "idle" /\ hm'.op = "handleMessage"
           /\ hm'.r.sender # sender /\ Len(hm'.r.body) >= 2
           /\ ~AtHome(hm'.r)
           /\ Policy(clyde.subs, hm'.r.class) \in {0, LISTEN}
           /\ SomeMatch(hm'.r)) =>
          /\ hm'.trace.sent = << >>
          /\ Len(hm'.trace.evaluated) = FirstMatch(hm'.r)
          /\ ~hm'.panic =>
               hm'.trace.performed = << BehaviorNames[FirstMatch(hm'.r)] >>
          /\ clyde'.chain = Build(clyde.chain, hm'.r.body[2])
          /\ clyde'.zsigChain = Build(clyde.zsigChain, hm'.r.body[1])
          /\ clyde'.subs = clyde.subs ]_vars

\* a behavior was performed on a LISTEN class without a zephyr, a later
\* behavior matching too, and the chain holds the words of the text
C11_Witness ==
    /\ hm.op = "handleMessage"
    /\ hm.r.class = Chars("foo")
    /\ Policy(clyde.subs, hm.r.class) = LISTEN
    /\ Len(hm.trace.performed) = 1
    /\ hm.trace.sent = << >>
    /\ \E k \in (Len(hm.trace.evaluated) + 1)..Len(Behaviors) :
          Matches(k, hm.r)
    /\ Trained(clyde.chain) >= 3

----------------------------------------------------------------------------
(* C12: a reply goes to the class and instance of the message when the     *)
(* message arrived at home or the policy of its class is FULL; under       *)
(* REPLYHOME it goes to the home class and instance unless the text names  *)
(* Clyde (in any case), and then to the class and instance of the          *)
(* message.  In these cases a performed behavior sends exactly one zephyr, *)
(* and no zephyr is ever sent anywhere else.                               *)
C12_ReplyDestination ==
    (hm.op = "handleMessage" /\ Len(hm.trace.performed) = 1) =>
      LET r == hm.r
          policy == Policy(clyde.subs, r.class)
          inPlace == <<r.class, r.instance>>
          atHome == <<homeClass, homeInstance>>
          dests == [i \in 1..Len(hm.trace.sent) |->
                      <<hm.trace.sent[i].class, hm.trace.sent[i].instance>>]
      IN  /\ AtHome(r) => dests = << inPlace >>
          /\ (~AtHome(r) /\ policy = FULL) => dests = << inPlace >>
          /\ (~AtHome(r) /\ policy = REPLYHOME /\ NamesClyde(r)) =>
               dests = << inPlace >>
          /\ (~AtHome(r) /\ policy = REPLYHOME /\ ~NamesClyde(r)) =>
               dests = << atHome >>
          /\ \A i \in 1..Len(dests) : dests[i] \in {inPlace, atHome}

\* a reply was redirected to the home class under REPLYHOME
C12_Witness ==
    /\ hm.op = "handleMessage"
    /\ hm.r.class = Chars("foo")
    /\ Policy(clyde.subs, hm.r.class) = REPLYHOME
    /\ Len(hm.trace.performed) = 1
    /\ Len(hm.trace.sent) = 1
    /\ hm.trace.sent[1].class = homeClass
    /\ hm.trace.sent[1].instance = homeInstance

----------------------------------------------------------------------------
(* C13: when the response of a matched behavior is the empty string, no    *)
(* zephyr is sent.                                                         *)
C13_EmptyResponseSilent ==
    (hm.op = "Reply" /\ hm.response = EmptyString) => hm.sent = << >>

\* an empty response was sent as a zephyr with an empty body
C13_EmptySent ==
    /\ hm.op = "Reply"
    /\ hm.response = EmptyString
    /\ Len(hm.sent) = 1
    /\ hm.sent[1].body = EmptyString

----------------------------------------------------------------------------
(* C20: handling a message of another sender whose body has fewer than two *)
(* fields does not fail: the handler returns, no behavior is performed,    *)
(* nothing is sent and the chain of the texts is left as it was.           *)
C20_ShortBodyHandled ==
    (hm.op = "handleMessage" /\ hm.r.sender # sender
       /\ Len(hm.r.body) < 2) =>
      /\ ~hm.panic
      /\ hm.trace.performed = << >>
      /\ hm.trace.sent = << >>
      /\ clyde.chain = hm.trace.given.chain

\* the handler panicked on a body of one field
C20_ShortBodyPanics ==
    /\ hm.op = "handleMessage"
    /\ hm.r.sender # sender
    /\ Len(hm.r.body) = 1
    /\ hm.panic

----------------------------------------------------------------------------
(* C17: starting from the mood of a loaded Clyde, the mood stays between 0 *)
(* and maxMood under Better, Worse, AtLeastOk and the ticks: Better at the *)
(* maximum gives the maximum, Worse at 0 gives 0, otherwise each moves the *)
(* mood by one step; AtLeastOk lifts a mood below Ok to Ok and keeps any   *)
(* other; a tick keeps the mood or sets it to lonely.                      *)
C17_MoodInRange ==
    /\ clyde.mood \in 0..maxMood
    /\ hm.op = "Better" =>
         clyde.mood = IF hm.m = maxMood THEN maxMood ELSE hm.m + 1
    /\ hm.op = "Worse" =>
         clyde.mood = IF hm.m = 0 THEN 0 ELSE hm.m - 1
    /\ hm.op = "AtLeastOk" =>
         clyde.mood = IF hm.m < okMood THEN okMood ELSE hm.m
    /\ hm.op = "handleTick" => clyde.mood \in {hm.m, lonelyMood}

\* Better was called at the maximum and gave the maximum
C17_Witness ==
    /\ hm.op = "Better"
    /\ hm.m = maxMood
    /\ clyde.mood = maxMood

----------------------------------------------------------------------------
----------------------------------------------------------------------------
(* C19: when the file of the subscriptions does not parse, LoadClyde       *)
(* returns no error of loading it, and the Clyde it returns holds no       *)
(* subscription: only the home class and instance are subscribed to, as    *)
(* when the file is not there.                                             *)
C19_CorruptSubsLikeAbsent ==
    (hm.op = "LoadClyde" /\ subsFile \in DOMAIN home
       /\ ~Complete(home[subsFile])) =>
      /\ hm.o.step # "loadSubs"
      /\ hm.o.err = "nil" =>
           /\ clyde.subs = << >>
           /\ hm.o.subscribed = { <<homeClass, homeInstance>> }

\* LoadClyde returned the syntax error of the subscriptions file
C19_SyntaxErrorReturned ==
    /\ hm.op = "LoadClyde"
    /\ subsFile \in DOMAIN home
    /\ ~Complete(home[subsFile])
    /\ hm.o.step = "loadSubs"
    /\ hm.o.err = "syntax"

----------------------------------------------------------------------------
(* Vocabulary of the properties of the loop *)

\* the loop goroutine has left the loop and handleShutdown has returned
LoopExited == proc.loop \in {"exited", "unwinding", "crashed"}

\* the loop is about to select an event, or is in handleTick or
\* handleMessage
InLoop == proc.loop \in {"check", "select", "handleTick", "handleMessage"}

----------------------------------------------------------------------------
(* C14: whenever the channel shutdown is closed when the loop selects its  *)
(* next event, at either select, the loop goes on to handleShutdown and    *)
(* enters neither handleTick nor handleMessage.                            *)
C14_ShutdownPriority ==
    [][ (proc.shutdown /\ proc.loop \in {"check", "select"}
           /\ proc'.loop # proc.loop) =>
          proc'.loop = "handleShutdown" ]_vars

\* a handler of a tick or a message was entered with shutdown closed
C14_HandlerAfterClose ==
    /\ proc.shutdown
    /\ proc.loop \in {"handleTick", "handleMessage"}
    /\ proc.main = "Shutdown"
    /\ Shutdown[proc.mainStep] = "wgWait"

----------------------------------------------------------------------------
(* C15: after Run, Shutdown returns only when the loop goroutine has left  *)
(* the loop and the save of the chain, of the zsig chain and of the        *)
(* subscriptions have completed, in this order; once the first save has    *)
(* completed the loop selects no event and is in no handler of a tick or   *)
(* a message.                                                              *)
C15_ShutdownWaits ==
    /\ proc.main = "returned" =>
         /\ LoopExited
         /\ proc.done = << "chainSave", "zsigSave", "saveSubs" >>
         /\ proc.wg = 0
    /\ proc.done # << >> => ~InLoop

\* Shutdown returned after a message was trained and the chain was written
C15_Witness ==
    /\ proc.main = "returned"
    /\ proc.loop = "exited"
    /\ Trained(clyde.chain) >= 2
    /\ chainFile \in DOMAIN home
    /\ home[chainFile] = Encode(clyde.chain.chain)

----------------------------------------------------------------------------
(* C16: at most one of handleTick, handleMessage and handleShutdown is     *)
(* executing, it is the one the loop goroutine is in, and the chains, the  *)
(* mood, the last interaction and the subscriptions have been read and     *)
(* written by the loop goroutine alone.                                    *)
C16_LoopOwnsState ==
    /\ Cardinality(proc.executing) <= 1
    /\ proc.executing \subseteq {proc.loop}
    /\ \A a \in proc.access : a[1] = "loop"

\* handleMessage is executing while Shutdown waits, after a tick was
\* handled
C16_Witness ==
    /\ proc.executing = {"handleMessage"}
    /\ proc.main = "Shutdown"
    /\ proc.shutdown
    /\ <<"loop", "mood">> \in proc.access

----------------------------------------------------------------------------
(* C21: reading a random line of a file that is not there, or that holds   *)
(* no non-empty line, never crashes: handling a message of two fields      *)
(* never panics, and with no usable file of the person actLike answers     *)
(* with its literal text.                                                  *)
C21_NoDataNoCrash ==
    (hm.op = "handleMessage" /\ Len(hm.r.body) >= 2) =>
      /\ ~hm.panic
      /\ (hm.trace.performed = << "actLike" >> /\ AtHome(hm.r)
            /\ \A f \in DOMAIN home : allLines(home, f).lines = << >>) =>
           /\ Len(hm.trace.sent) = 1
           /\ hm.trace.sent[1].body # EmptyString

\* a behavior panicked reading a file that holds no non-empty line
C21_BlankFilePanics ==
    /\ hm.op = "handleMessage"
    /\ Len(hm.r.body) >= 2
    /\ hm.panic
    /\ \E f \in DOMAIN home : allLines(home, f).lines = << >>

----------------------------------------------------------------------------
(* C22: for the text "if the sun and the moon fought, who would win?"      *)
(* received at home, fight is the behavior performed, and exactly one      *)
(* zephyr is sent, at home: its text is "I think X would win, because"     *)
(* with X "the sun" or "the moon", followed only by words that NextWord    *)
(* may return for the words before them.                                   *)
C22_FightReply ==
    (hm.op = "handleMessage" /\ hm.r.body[2] = fightQuestion
       /\ AtHome(hm.r)) =>
      /\ ~hm.panic
      /\ hm.trace.performed = << "fight" >>
      /\ Len(hm.trace.sent) = 1
      /\ hm.trace.sent[1].class = homeClass
      /\ hm.trace.sent[1].instance = homeInstance
      /\ \E X \in { Chars("the sun"), Chars("the moon") } :
            LET seed == Fields(Chars("I think ") \o X
                               \o Chars(" would win, because"))
                out == Fields(hm.trace.sent[1].body)
            IN  /\ hm.trace.sent[1].body = Join(out, <<Space>>)
                /\ Len(out) >= Len(seed)
                /\ SubSeq(out, 1, Len(seed)) = seed
                /\ \A k \in (Len(seed) + 1)..Len(out) :
                      out[k] \in NextWord(clyde.chain,
                                          RollingPrefix(out, k, prefixLen))

\* the reply names the moon and goes on with two words of the chain
C22_Witness ==
    /\ hm.op = "handleMessage"
    /\ hm.r.body[2] = fightQuestion
    /\ AtHome(hm.r)
    /\ Len(hm.trace.sent) = 1
    /\ LET out == Fields(hm.trace.sent[1].body)
       IN  /\ Len(out) = 9
           /\ SubSeq(out, 3, 4) = << Chars("the"), Chars("moon") >>


(***************************************************************************)
(* C23: a tick sends idle chatter only if at least one hour has elapsed    *)
(* since the last interaction, and changes the mood only if at least two   *)
(* hours have elapsed, in which case the mood becomes lonely; a tick never *)
(* trains a chain, never changes the subscriptions and never updates the   *)
(* time of the last interaction.                                            *)
(***************************************************************************)
C23_TickFrame ==
    hm.op = "handleTick" =>
      LET aloneDuration == hm.t - hm.given.lastInteraction
      IN  /\ hm.sent # << >> => aloneDuration >= 1
          /\ clyde.mood # hm.given.mood =>
                aloneDuration >= 2 /\ clyde.mood = lonelyMood
          /\ clyde.chain = hm.given.chain
          /\ clyde.zsigChain = hm.given.zsigChain
          /\ clyde.subs = hm.given.subs
          /\ clyde.lastInteraction = hm.given.lastInteraction

\* a tick two hours after the last interaction that greets the home
\* channel and leaves Clyde lonely
C23_Witness ==
    /\ hm.op = "handleTick"
    /\ hm.t - hm.given.lastInteraction >= 2
    /\ Len(hm.sent) = 1
    /\ hm.given.mood = goodMood
    /\ clyde.mood = lonelyMood


(***************************************************************************)
(* C24: the time of the last interaction is set to the time of the         *)
(* handling exactly when a behavior reports that it was triggered, whether *)
(* or not its reply is sent, and where; a text that no pattern matches     *)
(* leaves the time of the last interaction, the mood, the subscriptions    *)
(* and the files as they were, sends nothing, and trains the two chains.   *)
(***************************************************************************)
C24_LastInteraction ==
    [][ (hm.op = "idle" /\ hm'.op = "handleMessage" /\ ~hm'.panic) =>
          /\ hm'.trace.performed # << >> => clyde'.lastInteraction = now'
          /\ hm'.trace.performed = << >> =>
                clyde'.lastInteraction = clyde.lastInteraction
          /\ (hm'.r.sender # sender /\ SomeMatch(hm'.r)) =>
                hm'.trace.performed # << >>
          /\ (hm'.r.sender # sender /\ ~SomeMatch(hm'.r)) =>
                /\ hm'.trace.performed = << >>
                /\ hm'.trace.sent = << >>
                /\ clyde'.mood = clyde.mood
                /\ clyde'.subs = clyde.subs
                /\ home' = home
                /\ clyde'.chain = Build(clyde.chain, hm'.r.body[2])
                /\ clyde'.zsigChain = Build(clyde.zsigChain, hm'.r.body[1]) ]_vars

\* a behavior was triggered on a class whose policy keeps Clyde silent, and
\* the time of the last interaction is the time of the handling
C24_Witness ==
    /\ hm.op = "handleMessage"
    /\ ~hm.panic
    /\ ~AtHome(hm.r)
    /\ Len(hm.trace.performed) = 1
    /\ hm.trace.sent = << >>
    /\ now > hm.trace.given.lastInteraction
    /\ clyde.lastInteraction = now


----------------------------------------------------------------------------
(* Package cat: the states of the cat with respect to Clyde, the actions   *)
(* of the cat, and ParseAction, which reads an action and a user out of a  *)
(* message of the cat.  The patterns are compiled as they are written,     *)
(* without (?i): the text is matched in the case it has.                   *)

Normal == 0
TryScoop == 1
WeScooped == 2
WeCarrying == 3
TryDeposit == 4
TryPlay == 5
Traveling == 6

React == 0
Scooped == 1
ScoopFailed == 2
Leave == 3
Enter == 4
Deposited == 5
Bored == 6

\* \w
WordClass ==
    [neg |-> FALSE,
     cs |-> { Upper[i] : i \in DOMAIN Upper } \cup { Lower[i] : i \in DOMAIN Lower }
            \cup { "0", "1", "2", "3", "4", "5", "6", "7", "8", "9", "_" }]

ActionPatterns ==
    React :> Alt(<<
                Cat(<< Cap(1, "", Alt(<<
                           Cat(<< Cap(2, "", Alt(<< Lit("bats"),
                                                    Lit("scratches") >>)),
                                  Lit(" at") >>),
                           Lit("rubs up against"), Lit("snuggles up to"),
                           Lit("looks at") >>)),
                       Lit(" "), Cap(3, "user", Star(WordClass)) >>),
                Cat(<< Lit("slips out of "), Cap(4, "user", Star(WordClass)),
                       Lit("'s arms") >>),
                Lit("purrs"), Lit("meows"), Lit("is confused") >>)
    @@ Scooped :> Cat(<< Cap(1, "user", Star(WordClass)), Lit(" scoops") >>)
    @@ ScoopFailed :> Cat(<< Lit("slips out of "),
                             Cap(1, "user", Star(WordClass)), Lit("'s grip") >>)
    @@ Leave :> Cat(<< Lit("carried away by "),
                       Cap(1, "user", Star(WordClass)) >>)
    @@ Enter :> Cat(<< Cap(1, "user", Star(WordClass)), Lit(" carries") >>)
    @@ Deposited :> Cat(<< Cap(1, "user", Star(WordClass)), Lit(" sets") >>)
    @@ Bored :> Alt(<< Lit("rolls around"), Lit("curls up"),
                       Lit("plays with her tail"), Lit("mews softly") >>)

Parsed(action, user) == [action |-> action, user |-> user]

\* Mutant of ParseAction: a message that no pattern matches is a React.
ParseActionDefaultReact(msg) ==
    LET matching == { a \in DOMAIN ActionPatterns :
                        FindFrom(ActionPatterns[a], msg, 0).found }
    IN  IF matching = {} THEN { Parsed(React, EmptyString) }
        ELSE { Parsed(a, ExpandString(ActionPatterns[a], "user", msg,
                                      FindFrom(ActionPatterns[a], msg, 0))) :
                 a \in matching }

\* ParseAction: the range over the map ActionPatterns visits the patterns
\* in an order that is not specified, and the first one visited that
\* matches gives the result: every action whose pattern matches may be
\* returned.  When none matches the result is Bored with no user.
ParseAction(msg) ==
    LET matching == { a \in DOMAIN ActionPatterns :
                        FindFrom(ActionPatterns[a], msg, 0).found }
    IN  IF matching = {} THEN { Parsed(Bored, EmptyString) }
        ELSE { Parsed(a, ExpandString(ActionPatterns[a], "user", msg,
                                      FindFrom(ActionPatterns[a], msg, 0))) :
                 a \in matching }

----------------------------------------------------------------------------
(* The machine that follows the cat.  Clyde keeps the state of the cat,    *)
(* whether the cat is held elsewhere, and the time the cat was last seen.  *)
(* A message of the cat is parsed into an action and a user; the action is *)
(* directed at Clyde when the user is Clyde.                               *)

\* the cat is idle when it was last seen more than this many hours ago
idleThreshold == 1

CatOutcome(cl, emits) == [cl |-> cl, emits |-> emits]

\* the transition on one parsed action at time t: the state, the mood and
\* the flag after it, and what Clyde emits, for every value of the random
\* draw
catTransition(cl, p, t) ==
    LET directed == p.user = sender
        To(state) == { CatOutcome([cl EXCEPT !.catState = state], << >>) }
    IN  CASE p.action = React ->
               IF cl.catState = TryPlay /\ directed
               THEN { CatOutcome(
                        [cl EXCEPT !.catState = Normal,
                                   !.mood = AtLeastOk(Better(Better(cl.mood)))],
                        << >>) }
               ELSE To(Normal)
          [] p.action = Scooped ->
               IF directed
               THEN { CatOutcome([cl EXCEPT !.catState = WeScooped,
                                            !.heldElsewhere = ~cl.heldElsewhere],
                                 IF cl.heldElsewhere THEN << "release" >>
                                 ELSE << >>) }
               ELSE To(Normal)
          [] p.action = ScoopFailed ->
               IF directed
               THEN { CatOutcome([cl EXCEPT !.catState = Normal],
                                 << "consolation" >>) }
               ELSE To(Normal)
          [] p.action = Leave ->
               IF directed THEN To(WeCarrying)
               ELSE { CatOutcome([cl EXCEPT !.catState = Traveling,
                                            !.heldElsewhere = FALSE], << >>) }
          [] p.action = Enter ->
               IF directed
               THEN { CatOutcome([cl EXCEPT !.catState = TryDeposit],
                                 << "release" >>) }
               ELSE To(Normal)
          [] p.action = Deposited ->
               IF directed
               THEN { CatOutcome([cl EXCEPT !.catState = TryPlay],
                                 << "engage" >>) }
               ELSE To(Normal)
          [] p.action = Bored ->
               To(Normal)
               \cup (IF t - cl.catSeen > idleThreshold
                     THEN { CatOutcome([cl EXCEPT !.catState = TryScoop],
                                       << "acquire" >>),
                            CatOutcome([cl EXCEPT !.catState = TryPlay],
                                       << "engage" >>) }
                     ELSE {})

\* a message of the cat at time t: after the transition, a lonely Clyde
\* who finds the cat in state Normal asks it to play; the cat was seen
catBehavior(cl, p, t) ==
    { IF o.cl.mood = lonelyMood /\ o.cl.catState = Normal
      THEN CatOutcome([o.cl EXCEPT !.catState = TryPlay, !.catSeen = t],
                      Append(o.emits, "engage"))
      ELSE CatOutcome([o.cl EXCEPT !.catSeen = t], o.emits)
      : o \in catTransition(cl, p, t) }

\* the messages of the cat: one for every action, directed at Clyde or at
\* bob or at nobody, one in capital letters, one that two patterns match,
\* and one that no pattern matches
CatMessages ==
    { Chars("purrs"), Chars("looks at clyde"), Chars("looks at bob"),
      Chars("clyde scoops"), Chars("slips out of clyde's grip"),
      Chars("carried away by clyde"), Chars("carried away by bob"),
      Chars("clyde carries"), Chars("clyde sets"), Chars("rolls around"),
      Chars("PURRS"), Chars("purrs, bob scoops"), Chars("hello") }

\* Clyde in any mood; the place of the cat is not known at startup
InitCat ==
    /\ clyde \in { [catState |-> Traveling, heldElsewhere |-> FALSE,
                    catSeen |-> 0]
                   @@ [NewClyde(NewChain(prefixLen), << >>) EXCEPT !.mood = m] :
                     m \in 0..maxMood }
    /\ home = << >>
    /\ now = 0
    /\ hm = Idle
    /\ proc = NotRunning
    /\ c = NewChain(prefixLen)
    /\ last = Idle
    /\ observed = {}
    /\ file = NoFile
    /\ saved = << >>

HandleCat ==
    /\ hm = Idle
    /\ \E msg \in CatMessages :
          \E p \in ParseAction(msg) :
             \E o \in catBehavior(clyde, p, now) :
                /\ clyde' = o.cl
                /\ hm' = [op |-> "cat", msg |-> msg, parsed |-> p,
                          results |-> ParseAction(msg), given |-> clyde,
                          t |-> now, emits |-> o.emits,
                          may |-> { x.cl.catState :
                                      x \in catBehavior(clyde, p, now) },
                          panic |-> FALSE]
    /\ UNCHANGED <<home, now>>
    /\ UNCHANGED chainVars
    /\ UNCHANGED proc

NextCat == Pass \/ HandleCat \/ ReturnMessage

SpecCat == InitCat /\ [][NextCat]_vars


(***************************************************************************)
(* C25: an action React of the cat directed at Clyde, received in state    *)
(* TryPlay, moves the state to Normal and makes the mood two steps better, *)
(* no better than the best mood and then no worse than Ok: the new mood is *)
(* at least Ok, at most the maximum and never below the old mood.          *)
(***************************************************************************)
C25_PlayAccepted ==
    (hm.op = "cat" /\ hm.given.catState = TryPlay
       /\ hm.parsed.action = React /\ hm.parsed.user = sender) =>
      /\ clyde.catState = Normal
      /\ clyde.mood = (IF hm.given.mood + 2 > max THEN max
                       ELSE IF hm.given.mood + 2 < Ok THEN Ok
                       ELSE hm.given.mood + 2)
      /\ clyde.mood >= Ok
      /\ clyde.mood <= max
      /\ clyde.mood >= hm.given.mood

\* the cat looks at an angry Clyde who asked it to play: the mood is
\* lifted to Ok
C25_Witness ==
    /\ hm.op = "cat"
    /\ hm.given.catState = TryPlay
    /\ hm.msg = Chars("looks at clyde")
    /\ hm.given.mood = 1
    /\ clyde.mood = Ok
    /\ clyde.catState = Normal

(***************************************************************************)
(* C26: a Bored action of the cat, which names no user and includes every  *)
(* message that no pattern matches, received in state Normal when the cat  *)
(* was last seen more than one hour ago, leaves the state Normal or leads  *)
(* to TryScoop or to TryPlay; both of these can be the outcome, and no     *)
(* other state can.                                                        *)
(***************************************************************************)
C26_BoredStartsAttempt ==
    hm.op = "cat" =>
      /\ (\A a \in DOMAIN ActionPatterns :
             ~FindFrom(ActionPatterns[a], hm.msg, 0).found) =>
            hm.parsed = Parsed(Bored, EmptyString)
      /\ (hm.parsed.action = Bored /\ hm.given.catState = Normal
            /\ hm.t - hm.given.catSeen > 1) =>
            /\ hm.parsed.user = EmptyString
            /\ {TryScoop, TryPlay} \subseteq hm.may
            /\ hm.may \subseteq {Normal, TryScoop, TryPlay}
            /\ clyde.catState \in hm.may

\* a message that no pattern matches, two hours after the cat was seen in
\* state Normal, and Clyde tries to scoop the cat
C26_Witness ==
    /\ hm.op = "cat"
    /\ hm.msg = Chars("hello")
    /\ hm.given.catState = Normal
    /\ hm.t - hm.given.catSeen > 1
    /\ clyde.catState = TryScoop


(***************************************************************************)
(* C27: a request to subscribe adds the class to the subscriptions only    *)
(* when the request arrived on the home class and instance, the class has  *)
(* no policy yet and the message is authentic; the policy of the class is  *)
(* then REPLYHOME.  In every other case the subscriptions are left as they *)
(* were and the only text produced is one of the three refusals.  No other *)
(* behavior changes the subscriptions.                                     *)
(***************************************************************************)
C27_SubscribeGuarded ==
    [][ (hm.op = "idle" /\ hm'.op = "handleMessage" /\ ~hm'.panic) =>
          LET r == hm'.r
              foo == Chars("foo")
              granted == AtHome(r) /\ Policy(clyde.subs, foo) = 0 /\ r.auth
              refusals ==
                { Chars("I'm subbed to a lot of classes right now; maybe another time..."),
                  Chars("I'm already subbed to -c foo!"),
                  Chars("You look sketchy, I don't trust you...") }
          IN  /\ clyde'.subs # clyde.subs =>
                   /\ hm'.trace.performed = << "addSub" >>
                   /\ AtHome(r) /\ r.auth
              /\ (hm'.trace.performed = << "addSub" >>
                    /\ r.body[2] = Chars("clyde, sub to foo")) =>
                   /\ granted =>
                        /\ clyde'.subs = (foo :> REPLYHOME) @@ clyde.subs
                        /\ hm'.trace.sent
                             = << send(homeClass, homeInstance,
                                       Chars("-c foo sounds awesome! Thanks for the invitation :)")) >>
                   /\ ~granted =>
                        /\ clyde'.subs = clyde.subs
                        /\ \A k \in DOMAIN hm'.trace.sent :
                              hm'.trace.sent[k].body \in refusals ]_vars

\* an authentic request at home for a class without policy was granted
C27_Witness ==
    /\ hm.op = "handleMessage"
    /\ hm.trace.performed = << "addSub" >>
    /\ AtHome(hm.r) /\ hm.r.auth
    /\ Policy(hm.trace.given.subs, Chars("foo")) = 0
    /\ Policy(clyde.subs, Chars("foo")) = REPLYHOME


----------------------------------------------------------------------------
(* The subscriptions of a running Clyde: calls of subscribe with any class *)
(* and policy, and messages that ask for a subscription or about one.      *)

SubClasses == { Chars("foo"), Chars("alice") }

SubMessages ==
    { [sender |-> Chars("alice@R"), class |-> ch[1], instance |-> ch[2],
       auth |-> a, body |-> << Chars("hi"), u >>] :
        ch \in Channels, a \in BOOLEAN,
        u \in { Chars("clyde, sub to foo"), Chars("clyde, subscribe to me"),
                Chars("are you on foo") } }

\* the subscriptions LoadClyde may have loaded: none, or foo with any
\* policy, the zero policy among them
InitSubs ==
    /\ clyde \in { NewClyde(NewChain(prefixLen), subs) :
                     subs \in { << >> } \cup
                              { Chars("foo") :> policy :
                                  policy \in {0, LISTEN, REPLYHOME, FULL} } }
    /\ home = << >>
    /\ now = 0
    /\ hm = Idle
    /\ proc = NotRunning
    /\ c = NewChain(prefixLen)
    /\ last = Idle
    /\ observed = {}
    /\ file = NoFile
    /\ saved = << >>

CallSubscribe ==
    /\ hm = Idle
    /\ \E class \in SubClasses :
          \E policy \in {LISTEN, REPLYHOME, FULL} :
             /\ clyde' = subscribe(clyde, class, policy)
             /\ hm' = [op |-> "subscribe", class |-> class,
                       policy |-> policy, given |-> clyde, panic |-> FALSE]
    /\ UNCHANGED <<home, now>>
    /\ UNCHANGED chainVars
    /\ UNCHANGED proc

HandleRequest ==
    /\ hm = Idle
    /\ now < MaxMessages
    /\ \E r \in SubMessages :
          \E o \in handleMessage(clyde, home, r, now + 1) :
             /\ clyde' = o.cl
             /\ home' = o.dir
             /\ hm' = [op |-> "handleMessage", r |-> r, trace |-> o.trace,
                       panic |-> o.panic]
    /\ now' = now + 1
    /\ UNCHANGED chainVars
    /\ UNCHANGED proc

NextSubs == CallSubscribe \/ HandleRequest \/ ReturnMessage

SpecSubs == InitSubs /\ [][NextSubs]_vars

(***************************************************************************)
(* C28: the subscriptions of a running Clyde only grow: a class that has a *)
(* policy other than zero keeps that policy through every call of          *)
(* subscribe and every message, and subscribe on such a class changes      *)
(* nothing, whatever policy it is called with.                             *)
(***************************************************************************)
C28_SubsOnlyGrow ==
    [][ /\ \A class \in DOMAIN clyde.subs :
              clyde.subs[class] # 0 =>
                 /\ class \in DOMAIN clyde'.subs
                 /\ clyde'.subs[class] = clyde.subs[class]
        /\ (hm.op = "idle" /\ hm'.op = "subscribe"
              /\ Policy(clyde.subs, hm'.class) # 0) => clyde' = clyde ]_vars

\* subscribe was called with FULL on a class that a request had subscribed
\* with REPLYHOME, and the policy is still REPLYHOME
C28_Witness ==
    /\ hm.op = "subscribe"
    /\ hm.policy = FULL
    /\ now = 1
    /\ Policy(hm.given.subs, hm.class) = REPLYHOME
    /\ hm.class = Chars("alice")
    /\ Policy(clyde.subs, hm.class) = REPLYHOME


(***************************************************************************)
(* C29: a message whose sender is Clyde himself changes no state: neither  *)
(* chain is trained, no behavior is evaluated, nothing is sent, and the    *)
(* time of the last interaction, the mood, the subscriptions and the files *)
(* are as they were, whatever the body of the message holds.               *)
(***************************************************************************)
C29_OwnMessageIgnored ==
    [][ (hm.op = "idle" /\ hm'.op = "handleMessage"
           /\ hm'.r.sender = sender) =>
          /\ ~hm'.panic
          /\ clyde' = clyde
          /\ home' = home
          /\ hm'.trace.evaluated = << >>
          /\ hm'.trace.performed = << >>
          /\ hm'.trace.sent = << >> ]_vars

\* a message of Clyde himself, with a text that a pattern matches, was
\* handled and the chain is still the chain of before
C29_Witness ==
    /\ hm.op = "handleMessage"
    /\ hm.r.sender = sender
    /\ Len(hm.r.body) = 2
    /\ SomeMatch(hm.r)
    /\ clyde = hm.trace.given
    /\ hm.trace.evaluated = << >>
    /\ Trained(clyde.chain) = 0


(***************************************************************************)
(* C30: once the channel shutdown is closed, the loop enters at most one   *)
(* more handler of a tick or of a message before it runs handleShutdown:    *)
(* after that handler the loop does not come to its second select again.   *)
(***************************************************************************)
C30_OneMoreHandler ==
    /\ proc.late <= 1
    /\ proc.late = 1 => proc.loop # "select"

\* the loop entered a handler after the close, and has gone on to
\* handleShutdown
C30_Witness ==
    /\ proc.late = 1
    /\ proc.shutdown
    /\ proc.loop = "handleShutdown"
    /\ ~proc.panicking


(***************************************************************************)
(* C32: ParseAction is a function of the message: the same message always  *)
(* gives the same action and the same user, a message that more than one   *)
(* pattern matches included.                                               *)
(***************************************************************************)
C32_ParseActionFunction ==
    hm.op = "cat" => \A p, q \in hm.results : p = q

\* a message that the patterns of React and of Scooped both match was
\* parsed as a Scooped by bob, and may as well be parsed as a React with
\* no user
C32_TwoResults ==
    /\ hm.op = "cat"
    /\ hm.msg = Chars("purrs, bob scoops")
    /\ hm.parsed = Parsed(Scooped, Chars("bob"))
    /\ Parsed(React, EmptyString) \in hm.results


----------------------------------------------------------------------------
(* The wiring of cmd/clyde/main.go with the earlier Clyde: main starts     *)
(* Listen in a goroutine of its own, waits for a signal and then runs the  *)
(* deferred Shutdown itself.  Listen handles the messages of the session   *)
(* one after another: handleMessage trains the chain (Build) and then      *)
(* performs the behaviors.  Nothing orders the steps of the two            *)
(* goroutines but the closing of the session.                              *)

\* Shutdown of the earlier Clyde, step by step; with its return main
\* returns and the program ends
ShutdownListen == << "chainSave", "cancelSubs", "sessionClose", "return" >>

\* the chain file Save may write when it reads the chain at a moment the
\* listener may be training it with the text: a data race, so the chain of
\* before or the chain of after
RacingSave(cl, dir, building, text) ==
    SaveTo(dir, chainFile, Encode(cl.chain.chain))
    \cup (IF building
          THEN SaveTo(dir, chainFile, Encode(Build(cl.chain, text).chain))
          ELSE {})

\* the program is running: main has not returned and nothing has crashed
Running == Alive /\ proc.main # "returned"

\* main: go clyde.Listen()
CallListen ==
    /\ Running
    /\ proc.main = "Run"
    /\ proc' = [proc EXCEPT !.main = "serve", !.loop = "range"]
    /\ UNCHANGED <<clyde, home, now, hm>>
    /\ UNCHANGED chainVars

\* main: the signal arrives and main returns into the deferred Shutdown
Signal ==
    /\ Running
    /\ proc.main = "serve"
    /\ proc' = [proc EXCEPT !.main = "Shutdown", !.mainStep = 1]
    /\ UNCHANGED <<clyde, home, now, hm>>
    /\ UNCHANGED chainVars

\* main: one step of Shutdown; a Save that fails makes Shutdown return at
\* once, and a Save that meets the listener in Build may also end the
\* program (concurrent access to the map of the chain)
ShutdownListenStep ==
    /\ Running
    /\ proc.main = "Shutdown"
    /\ LET step == ShutdownListen[proc.mainStep]
           building == proc.loop = "Build"
           text == IF building THEN proc.r.body[2] ELSE EmptyString
           final == proc.mainStep = Len(ShutdownListen)
       IN  \/ /\ home' \in (IF step = "chainSave"
                            THEN RacingSave(clyde, home, building, text)
                            ELSE {home})
              /\ LET failed == step = "chainSave" /\ home' = home
                 IN  proc' = [Took(step, "main", proc) EXCEPT
                                !.main = IF final \/ failed THEN "returned"
                                         ELSE @,
                                !.mainStep = IF final \/ failed THEN 0
                                             ELSE @ + 1]
           \/ /\ step = "chainSave" /\ building
              /\ home' = home
              /\ proc' = [proc EXCEPT !.loop = "crashed"]
    /\ UNCHANGED <<clyde, now, hm>>
    /\ UNCHANGED chainVars

\* Listen: the range receives a message and handleMessage is entered;
\* Body[1] of a message of one field is a panic
Receive ==
    /\ Running
    /\ proc.loop = "range"
    /\ proc.inbox # << >>
    /\ LET r == Head(proc.inbox)
       IN  proc' = [proc EXCEPT
                      !.r = r, !.inbox = Tail(@),
                      !.loop = IF r.sender = sender THEN "range"
                               ELSE IF Len(r.body) < 2 THEN "crashed"
                               ELSE "Build",
                      !.executing = IF r.sender # sender /\ Len(r.body) >= 2
                                    THEN @ \cup {"handleMessage"} ELSE @]
    /\ UNCHANGED <<clyde, home, now, hm>>
    /\ UNCHANGED chainVars

\* handleMessage: c.Chain.Build(Body[1]) has trained the chain
BuildDone ==
    /\ Running
    /\ proc.loop = "Build"
    /\ clyde' = [clyde EXCEPT !.chain = Build(@, proc.r.body[2])]
    /\ proc' = [proc EXCEPT !.loop = "perform",
                            !.access = @ \cup {<<"listen", "chain">>}]
    /\ UNCHANGED <<home, now, hm>>
    /\ UNCHANGED chainVars

\* handleMessage: the behaviors were tried and the handler returns
Performed ==
    /\ Running
    /\ proc.loop = "perform"
    /\ proc' = [proc EXCEPT !.loop = "range",
                            !.executing = @ \ {"handleMessage"}]
    /\ UNCHANGED <<clyde, home, now, hm>>
    /\ UNCHANGED chainVars

\* Listen: the session is closed and the range ends
ListenReturns ==
    /\ Running
    /\ proc.loop = "range"
    /\ proc.inbox = << >>
    /\ proc.session = "closed"
    /\ proc' = [proc EXCEPT !.loop = "exited"]
    /\ UNCHANGED <<clyde, home, now, hm>>
    /\ UNCHANGED chainVars

NextListen ==
    \/ CallListen
    \/ Signal
    \/ ShutdownListenStep
    \/ Arrive
    \/ Receive
    \/ BuildDone
    \/ Performed
    \/ ListenReturns

SpecListen == InitRun /\ [][NextListen]_vars

(***************************************************************************)
(* C33: with Listen in a goroutine of its own and Shutdown called by main, *)
(* the Save of the chain in Shutdown never runs while handleMessage is     *)
(* training the same chain.                                                *)
(***************************************************************************)
C33_SaveNotDuringBuild ==
    [][ (proc.main = "Shutdown" /\ proc.mainStep >= 1
           /\ ShutdownListen[proc.mainStep] = "chainSave"
           /\ proc' # proc) =>
          proc.loop # "Build" ]_vars

\* Shutdown has saved the chain and goes on while the listener is still in
\* the Build of a message
C33_SaveDuringBuild ==
    /\ proc.main = "Shutdown"
    /\ proc.done = << "chainSave" >>
    /\ proc.loop = "Build"
    /\ chainFile \in DOMAIN home


----------------------------------------------------------------------------
(* Run and Shutdown under fair scheduling and terminating handlers.  A     *)
(* goroutine that can take a step of its own eventually takes one: the     *)
(* loop goroutine its two selects, the caller the steps of Shutdown.  A    *)
(* handler that was entered returns or panics, and every statement of      *)
(* handleShutdown completes.                                               *)

\* the second select of the loop, whichever case it takes
Select == SelectTick \/ SelectMessage \/ SelectShutdown

\* the loop is never in a handler, or in one statement of handleShutdown,
\* for ever
HandlersTerminate ==
    /\ []<>(proc.loop \notin {"handleTick", "handleMessage"})
    /\ \A k \in 1..Len(handleShutdown) :
          []<>(~(proc.loop = "handleShutdown" /\ proc.loopStep = k))

SpecRunFair ==
    /\ InitRun
    /\ [][NextRun]_vars
    /\ WF_vars(Check)
    /\ WF_vars(Select)
    /\ WF_vars(ShutdownStep)
    /\ HandlersTerminate

(***************************************************************************)
(* C31: under fair scheduling, once Shutdown is called after Run, the loop *)
(* eventually exits, handleShutdown has run exactly once (its three saves  *)
(* were made once each), and the call of Shutdown returns, whatever ticks  *)
(* and messages are pending or keep arriving.                              *)
(***************************************************************************)
C31_ShutdownCompletes ==
    (proc.main = "Shutdown") ~>
       (/\ proc.main = "returned"
        /\ proc.loop = "exited"
        /\ proc.done = << "chainSave", "zsigSave", "saveSubs" >>)

\* with the panics of the handlers set aside the same holds: the call of
\* Shutdown returns after the loop has exited and handleShutdown has run
\* once, or a handler has panicked
C31_CompletesUnlessPanic ==
    (proc.main = "Shutdown") ~>
       (\/ /\ proc.main = "returned"
           /\ proc.loop = "exited"
           /\ proc.done = << "chainSave", "zsigSave", "saveSubs" >>
        \/ proc.panicking)

\* the program has crashed on the panic of a handler that was entered
\* after the close, after the deferred handleShutdown, and the call of
\* Shutdown has not returned
C31_CrashedInShutdown ==
    /\ proc.main = "Shutdown"
    /\ proc.loop = "crashed"
    /\ proc.late = 1
    /\ proc.done = << "chainSave", "zsigSave", "saveSubs" >>

============================================================================
